---- MODULE Spec2Model ----
(***************************************************************************)
(* Model of the document-translation backend:                              *)
(*   - TranslationProcessor.translate_text (the Translation Router) with   *)
(*     its retry loop, skip rule and LLM escalation;                       *)
(*   - TranslationProcessor._normalize_language_code as a pure function    *)
(*     on character sequences;                                             *)
(*   - DocumentProcessor.process_pptx (the Shape-Tree Walker).             *)
(* Strings are modelled as tuples of one-character strings so that         *)
(* lower(), strip() and split() are computed rather than assumed.          *)
(***************************************************************************)
EXTENDS Integers, Sequences, FiniteSets, TLC

VARIABLES
    \* ---- TranslationProcessor.translate_text --------------------------
    text,                 \* argument text
    target_language,      \* argument target_language
    source_language,      \* argument source_language (None when absent)
    force_llm,            \* argument force_llm
    use_llm_enhancement,  \* self.use_llm_enhancement (set in __init__)
    openrouter_service,   \* TRUE iff self.openrouter_service is not None
    pc,                   \* position inside translate_text
    attempt,              \* loop variable of the retry loop
    azure_result,         \* azure_result of the current attempt
    callLog,              \* backend calls and sleeps, in order
    result,               \* the returned dictionary
    \* ---- _normalize_language_code as a function under test --------------
    lang_code,            \* the input x
    normOnce,             \* normalize(x)
    normTwice,            \* normalize(normalize(x))
    normUpper,            \* normalize(upper(x))
    normPc,
    \* ---- DocumentProcessor.process_pptx ----------------------------------
    docIn,                \* the presentation as loaded from input_path
    doc,                  \* prs: the presentation being mutated
    image_translator,     \* TRUE iff self.image_translator is not None
    wPc,                  \* position inside process_pptx
    slide_idx,            \* loop variable of the slide loop
    stack,                \* shape loops in progress: slide loop, then groups
    processed_image_hashes,
    original_texts,       \* self.original_texts, the ledger
    stats,                \* the stats dictionary
    idLog,                \* frame_id values assigned, with the shape they went to
    overlayLog,           \* translate_image invocations
    output,               \* files written at output_path
    walkNo,               \* number of the process_pptx call on this instance
    trace,                \* TRUE iff translateLog is being recorded
    translateLog,         \* ledger writes and translate_text calls, in order
    \* ---- ImageTranslator.translate_image under _process_image ------------
    ovDoc,                \* the presentation holding the picture
    ovPc,                 \* position inside _process_image / translate_image
    text_blocks,          \* result of extract_text_from_image
    ovIdx,                \* loop index of the block loop at line 267
    ovResults,            \* what translate_text returned, block by block
    blocks_to_translate,
    ovReturn,             \* value returned by translate_image
    images_translated,    \* stats['images_translated'] of the caller
    \* ---- api/routes/editor.py ---------------------------------------------
    files,                \* OUTPUT_FOLDER: filename -> document, mtime
    _slide_image_cache,   \* the module-level dict, in insertion order
    response,             \* what the last request was answered with
    lastEdit,             \* the last update request and the document it met
    requests,             \* number of requests served
    \* ---- DocumentProcessor._replace_text_preserve_format ------------------
    text_frame,           \* the paragraphs of the text frame, each a run list
    new_text,             \* argument new_text
    frameBefore,          \* text_frame as it was handed in
    rPc,
    \* ---- ImageTranslator._sample_text_colors ------------------------------
    pixels,               \* the pixels of the cropped region, in order
    sampled,              \* the returned (text_color, bg_color)
    cPc,
    \* ---- TranslationProcessor.batch_translate ----------------------------------
    texts,                \* argument texts of batch_translate
    batchTarget,          \* argument target_language
    batchSource,          \* argument source_language
    posts,                \* HTTP requests sent to the translator
    azure_results,        \* what AzureTranslator.batch_translate returned
    translations,         \* what TranslationProcessor.batch_translate returned
    batchPc,
    \* ---- api/routes/translation.py ---------------------------------------------
    httpStatus,            \* status the /translate route answered with, 0 before the answer
    \* ---- ImageTranslator.extract_text_from_image -------------------------------
    ocrAttempt,           \* attempt of the poll loop
    polls,                \* GET requests for the result so far
    sleeps,               \* time.sleep(1) calls so far
    ocrLines,             \* the lines of the result that reported succeeded
    ocrBlocks,            \* what extract_text_from_image returned
    ocrExit,              \* the return statement taken
    ocrPc

routerVars == <<text, target_language, source_language, force_llm,
                use_llm_enhancement, openrouter_service, pc, attempt,
                azure_result, callLog, result>>
normVars == <<lang_code, normOnce, normTwice, normUpper, normPc>>
walkVars == <<docIn, doc, image_translator, wPc, slide_idx, stack,
              processed_image_hashes, original_texts, stats, idLog,
              overlayLog, output, walkNo, trace, translateLog>>
overlayVars == <<ovDoc, ovPc, text_blocks, ovIdx, ovResults,
                 blocks_to_translate, ovReturn, images_translated>>
editVars == <<files, _slide_image_cache, response, lastEdit, requests>>
replaceVars == <<text_frame, new_text, frameBefore, rPc>>
colourVars == <<pixels, sampled, cPc>>
batchVars == <<texts, batchTarget, batchSource, posts, azure_results, translations, batchPc>>
routeVars == <<httpStatus>>
ocrVars == <<ocrAttempt, polls, sleeps, ocrLines, ocrBlocks, ocrExit, ocrPc>>
vars == <<routerVars, normVars, walkVars, overlayVars, editVars, replaceVars,
          colourVars, batchVars, routeVars, ocrVars>>

-----------------------------------------------------------------------------
(* Bounds *)
MaxTextLen == 2
MaxCodeLen == 3
MaxSlides == 2
MaxShapes == 4
MaxBlocks == 2
MaxLedgerSlides == 2
MaxLedgerShapes == 2
MaxRewalkShapes == 2
MaxWalks == 2
MaxEditSlides == 2
MaxEditShapes == 2
MaxEdits == 2
MaxRequests == 2
MaxParagraphs == 2
MaxRuns == 2
ChannelSteps == 3
MaxPixels == 2
MaxLines == 2
MaxBatch == 2

-----------------------------------------------------------------------------
(* Strings as character tuples *)

None == <<"<None>">>

LowerLetters == <<"a","b","c","d","e","f","g","h","i","j","k","l","m",
                  "n","o","p","q","r","s","t","u","v","w","x","y","z">>
UpperLetters == <<"A","B","C","D","E","F","G","H","I","J","K","L","M",
                  "N","O","P","Q","R","S","T","U","V","W","X","Y","Z">>

Range(s) == {s[i] : i \in 1..Len(s)}

LetterIndex(letters, c) == CHOOSE i \in 1..Len(letters) : letters[i] = c

\* str.lower() on one character
LowerChar(c) ==
    IF c \in Range(UpperLetters)
    THEN LowerLetters[LetterIndex(UpperLetters, c)] ELSE c

\* str.upper() on one character
UpperChar(c) ==
    IF c \in Range(LowerLetters)
    THEN UpperLetters[LetterIndex(LowerLetters, c)] ELSE c

Lower(s) == [i \in 1..Len(s) |-> LowerChar(s[i])]
Upper(s) == [i \in 1..Len(s) |-> UpperChar(s[i])]

Whitespace == {" "}

\* str.strip(): drop leading and trailing whitespace, keep embedded whitespace
Strip(s) ==
    LET nonWs == {i \in 1..Len(s) : s[i] \notin Whitespace}
    IN  IF nonWs = {} THEN <<>>
        ELSE LET lo == CHOOSE i \in nonWs : \A j \in nonWs : i <= j
                 hi == CHOOSE i \in nonWs : \A j \in nonWs : i >= j
             IN  SubSeq(s, lo, hi)

Contains(s, c) == \E i \in 1..Len(s) : s[i] = c

\* s.split(c)[0]: the part before the first occurrence of c
SplitFirst(s, c) ==
    IF ~Contains(s, c) THEN s
    ELSE LET k == CHOOSE i \in 1..Len(s) :
                      s[i] = c /\ \A j \in 1..(i-1) : s[j] # c
         IN  SubSeq(s, 1, k - 1)

\* Python truthiness of an Optional[str]
Truthy(s) == s # None /\ s # <<>>

\* All character tuples of length <= n over alphabet A
RECURSIVE StringsUpTo(_, _)
StringsUpTo(A, n) ==
    IF n = 0 THEN {<<>>}
    ELSE LET shorter == StringsUpTo(A, n - 1)
         IN  shorter \cup {Append(s, c) : s \in {t \in shorter : Len(t) = n - 1}, c \in A}

-----------------------------------------------------------------------------
(* TranslationProcessor._normalize_language_code *)

\* lang_map.get(lang, lang)
LangMap(lang) ==
    CASE lang = <<"i","n">> -> <<"i","d">>
      [] lang = <<"i","w">> -> <<"h","e">>
      [] lang = <<"j","i">> -> <<"y","i">>
      [] OTHER -> lang

_normalize_language_code(code) ==
    IF ~Truthy(code) THEN <<>>
    ELSE LET lang0 == Strip(Lower(code))
             lang1 == IF Contains(lang0, "-") THEN SplitFirst(lang0, "-") ELSE lang0
             lang2 == IF Contains(lang1, "_") THEN SplitFirst(lang1, "_") ELSE lang1
         IN  LangMap(lang2)

-----------------------------------------------------------------------------
(* Collaborators of the Router *)

max_retries == 3
retry_delay == 1

\* Inputs of translate_text
Texts == StringsUpTo({" ", "x"}, MaxTextLen)
TargetLanguages == {<<"f","r">>, <<"F","R">>, <<"i","d">>}
SourceLanguages == {None, <<"f","r">>, <<"e","n">>}
DetectedLanguages == {<<"f","r">>, <<"f","r","-","C","A">>, <<"e","n">>, <<"i","n">>}
AzureTexts == {<<"p">>, <<"q">>}
LlmTexts == {<<"r">>, <<>>}

\* AzureTranslator.translate_text: raises on a transport/HTTP error or a
\* malformed body, returns {} when the body carries no translations, else
\* the translated text with the detected language.
AzureEmpty == [raised |-> FALSE, has |-> FALSE, translated_text |-> None,
               detected_language |-> None]
AzureRaise == [raised |-> TRUE, has |-> FALSE, translated_text |-> None,
               detected_language |-> None]
AzureOutcomes ==
    {AzureRaise, AzureEmpty} \cup
    {[raised |-> FALSE, has |-> TRUE, translated_text |-> t, detected_language |-> d] :
        t \in AzureTexts, d \in DetectedLanguages}

\* What the HTTP exchange of OpenRouterService.translate_with_context can do
HttpOutcomes ==
    {[kind |-> "choices", content |-> c] : c \in LlmTexts} \cup
    {[kind |-> k, content |-> None] : k \in {"nochoices", "request_exception", "malformed"}}

\* translate_with_context without the except clause of lines 120-126
translate_with_context_uncaught(http) ==
    CASE http.kind = "choices" ->
            [raised |-> FALSE, success |-> TRUE, translation |-> http.content]
      [] http.kind = "nochoices" ->
            [raised |-> FALSE, success |-> FALSE, translation |-> None]
      [] OTHER ->
            [raised |-> TRUE, success |-> FALSE, translation |-> None]

\* OpenRouterService.translate_with_context, lines 92-126: a
\* RequestException and a body without choices become success=False; any
\* other exception (KeyError on a malformed choice) escapes to the caller.
translate_with_context(http) ==
    CASE http.kind = "choices" ->
            [raised |-> FALSE, success |-> TRUE, translation |-> http.content]
      [] http.kind \in {"nochoices", "request_exception"} ->
            [raised |-> FALSE, success |-> FALSE, translation |-> None]
      [] OTHER ->
            [raised |-> TRUE, success |-> FALSE, translation |-> None]

-----------------------------------------------------------------------------
(* TranslationProcessor.translate_text *)

NoResult == [returned |-> FALSE, success |-> FALSE, translation |-> None,
             method |-> "none", source_language |-> None,
             azure_translation |-> None, skipped |-> FALSE]

Returned(success, translation, method, src, azure, skipped) ==
    [returned |-> TRUE, success |-> success, translation |-> translation,
     method |-> method, source_language |-> src,
     azure_translation |-> azure, skipped |-> skipped]

\* One entry of callLog: a backend call or a sleep of the current attempt
Event(ev, a, ok, n, lang, kind, out) ==
    [ev |-> ev, attempt |-> a, ok |-> ok, n |-> n, lang |-> lang,
     kind |-> kind, out |-> out]

\* azure_result.get(key, default)
AzureGet(res, key, default) == IF res.has THEN res[key] ELSE default

\* line 69
DetectedLang(res, src) == AzureGet(res, "detected_language", src)

\* line 70 comparing the codes as given
ShouldSkipRaw(detected_lang, target) ==
    /\ Truthy(detected_lang)
    /\ detected_lang = target

\* line 70
ShouldSkip(detected_lang, target) ==
    /\ Truthy(detected_lang)
    /\ _normalize_language_code(detected_lang) = _normalize_language_code(target)

\* line 82 without the test that a service is configured
UsesLlmAnyService(enhance, force, service) == enhance \/ force

\* line 82
UsesLlm(enhance, force, service) == (enhance \/ force) /\ service

\* lines 102-108 reading a key the Azure result does not have
AzureReturnWrongKey(res) ==
    Returned(TRUE, <<>>, "azure", AzureGet(res, "detected_language", None),
             None, FALSE)

\* lines 102-108
AzureReturn(res) ==
    Returned(TRUE, AzureGet(res, "translated_text", <<>>), "azure",
             AzureGet(res, "detected_language", None), None, FALSE)

\* line 52 without the strip() test
IsEmptyTextNoStrip(t) == t = <<>>

\* line 52: not text or not text.strip()
IsEmptyText(t) == t = <<>> \/ Strip(t) = <<>>

\* lines 52-61: input validation, then the retry loop starts
ValidateInput ==
    /\ pc = "call"
    /\ IF IsEmptyText(text)
       THEN /\ result' = Returned(FALSE, <<>>, "none", None, None, FALSE)
            /\ pc' = "done"
       ELSE /\ pc' = "azure"
            /\ UNCHANGED result
    /\ UNCHANGED <<text, target_language, source_language, force_llm,
                   use_llm_enhancement, openrouter_service, attempt,
                   azure_result, callLog>>

\* line 66: the standard call of this attempt
AzureCall ==
    /\ pc = "azure"
    /\ \E out \in AzureOutcomes :
        /\ callLog' = Append(callLog,
               Event("azure", attempt, ~out.raised, 0,
                     IF out.raised THEN None ELSE DetectedLang(out, source_language),
                     "azure", AzureGet(out, "translated_text", None)))
        /\ azure_result' = out
        /\ pc' = IF out.raised THEN "except" ELSE "check"
    /\ UNCHANGED <<text, target_language, source_language, force_llm,
                   use_llm_enhancement, openrouter_service, attempt, result>>

\* lines 69-82 and 102-108: skip rule, else escalate, else return Azure
SkipCheck ==
    /\ pc = "check"
    /\ LET detected_lang == DetectedLang(azure_result, source_language)
       IN  IF ShouldSkip(detected_lang, target_language)
           THEN /\ result' = Returned(TRUE, text, "skipped", detected_lang, None, TRUE)
                /\ pc' = "done"
           ELSE IF UsesLlm(use_llm_enhancement, force_llm, openrouter_service)
           THEN /\ pc' = "llm"
                /\ UNCHANGED result
           ELSE /\ result' = AzureReturn(azure_result)
                /\ pc' = "done"
    /\ UNCHANGED <<text, target_language, source_language, force_llm,
                   use_llm_enhancement, openrouter_service, attempt,
                   azure_result, callLog>>

\* lines 91-99
LlmReturn(llm_result, res, src) ==
    Returned(TRUE, llm_result.translation, "llm", DetectedLang(res, src),
             AzureGet(res, "translated_text", None), FALSE)

\* lines 83-108: the enhancement call and what follows it
LlmCall ==
    /\ pc = "llm"
    /\ \E http \in HttpOutcomes :
        LET llm_result == translate_with_context(http)
        IN  /\ callLog' = Append(callLog,
                   Event("llm", attempt, ~llm_result.raised, 0, None,
                         http.kind, http.content))
            /\ IF llm_result.raised
               THEN /\ pc' = "except"
                    /\ UNCHANGED result
               ELSE IF llm_result.success
               THEN /\ result' = LlmReturn(llm_result, azure_result, source_language)
                    /\ pc' = "done"
               ELSE /\ result' = AzureReturn(azure_result)
                    /\ pc' = "done"
    /\ UNCHANGED <<text, target_language, source_language, force_llm,
                   use_llm_enhancement, openrouter_service, attempt,
                   azure_result>>

\* 2 ** n
RECURSIVE Pow2(_)
Pow2(n) == IF n = 0 THEN 1 ELSE 2 * Pow2(n - 1)

\* line 115
SleepTime(a) == retry_delay * Pow2(a)

\* line 113 with the bound off by one
MayRetryOffByOne(a) == a < max_retries

\* line 113
MayRetry(a) == a < max_retries - 1

\* lines 121-128 returning an empty translation
FailedReturnEmpty(t, src) == Returned(FALSE, <<>>, "failed", src, None, FALSE)

\* lines 121-128
FailedReturn(t, src) == Returned(FALSE, t, "failed", src, None, FALSE)

\* lines 110-128: the except clause of one attempt
HandleException ==
    /\ pc = "except"
    /\ IF MayRetry(attempt)
       THEN /\ callLog' = Append(callLog,
                   Event("sleep", attempt, TRUE, SleepTime(attempt), None,
                         "sleep", None))
            /\ attempt' = attempt + 1
            /\ pc' = "azure"
            /\ UNCHANGED result
       ELSE /\ result' = FailedReturn(text, source_language)
            /\ pc' = "done"
            /\ UNCHANGED <<callLog, attempt>>
    /\ UNCHANGED <<text, target_language, source_language, force_llm,
                   use_llm_enhancement, openrouter_service, azure_result>>

\* __init__, line 25
InitEnhancement(flag, service) == flag /\ service

-----------------------------------------------------------------------------
(* _normalize_language_code applied to bounded inputs *)

CodeAlphabet == {"i", "n", "I", "d", "-", "_", " "}

NormInputs ==
    StringsUpTo(CodeAlphabet, MaxCodeLen) \cup
    {<<"z","h","-","H","a","n","s">>, <<"Z","H","_","H","A","N","S">>,
     <<"z","h"," ","-","H","a","n","s">>, <<"i","w">>, <<"J","I">>}

ApplyNormalize ==
    /\ normPc = "input"
    /\ normOnce' = _normalize_language_code(lang_code)
    /\ normTwice' = _normalize_language_code(_normalize_language_code(lang_code))
    /\ normUpper' = _normalize_language_code(Upper(lang_code))
    /\ normPc' = "applied"
    /\ UNCHANGED lang_code

-----------------------------------------------------------------------------
(* The slide document: slides -> shapes, groups holding nested shapes *)

\* A shape as python-pptx exposes it to the walker. path is the shape's
\* identity (the XML element): its position in the input document.
Shape(kind, has_text_frame, has_table, txt, cells, blob, kids) ==
    [kind |-> kind, has_text_frame |-> has_text_frame, has_table |-> has_table,
     text |-> txt, cells |-> cells, blob |-> blob, kids |-> kids, path |-> <<>>]

TextFrame(t) == Shape("shape", TRUE, FALSE, t, <<>>, "none", <<>>)
Table(cells) == Shape("shape", FALSE, TRUE, <<>>, cells, "none", <<>>)
Picture(b) == Shape("pic", FALSE, FALSE, <<>>, <<>>, b, <<>>)
Group(kids) == Shape("group", FALSE, FALSE, <<>>, <<>>, "none", kids)

\* image contents: "big" is an image of at least 5000 bytes, "icon" one below
\* 5000 bytes; a picture whose blob is "linked" has no embedded image
\* (shape.image raises)
Leaves ==
    {TextFrame(<<"a">>), Table(<< <<"a">> >>), Picture("big"), Picture("icon")}

RECURSIVE TreesOf(_), ForestsOf(_)
\* shape trees with exactly n shapes
TreesOf(n) ==
    IF n = 1 THEN Leaves
    ELSE {Group(f) : f \in ForestsOf(n - 1)}
\* shape lists with exactly n shapes in total
ForestsOf(n) ==
    IF n = 0 THEN {<<>>}
    ELSE UNION {{<<t>> \o f : t \in TreesOf(k), f \in ForestsOf(n - k)} : k \in 1..n}

RECURSIVE DocsOf(_, _)
\* documents of s slides with exactly n shapes in total
DocsOf(s, n) ==
    IF s = 0 THEN (IF n = 0 THEN {<<>>} ELSE {})
    ELSE UNION {{<<f>> \o d : f \in ForestsOf(k), d \in DocsOf(s - 1, n - k)} : k \in 0..n}

RECURSIVE LabelShapes(_, _)
LabelShapes(forest, prefix) ==
    [i \in 1..Len(forest) |->
        [forest[i] EXCEPT !.path = Append(prefix, i - 1),
                          !.kids = LabelShapes(forest[i].kids, Append(prefix, i - 1))]]

LabelDoc(d) == [s \in 1..Len(d) |-> LabelShapes(d[s], <<s - 1>>)]

Documents ==
    {LabelDoc(d) : d \in UNION {DocsOf(s, n) : s \in 1..MaxSlides, n \in 0..MaxShapes}}

RECURSIVE AllShapes(_)
AllShapes(forest) ==
    UNION {{forest[i]} \cup AllShapes(forest[i].kids) : i \in 1..Len(forest)}

DocShapes(d) == UNION {AllShapes(d[s]) : s \in 1..Len(d)}

\* the shape object a reference points to
Lookup(d, path) == CHOOSE sh \in DocShapes(d) : sh.path = path

Paths(forest) == [i \in 1..Len(forest) |-> forest[i].path]

RECURSIVE ReplaceShape(_, _, _)
ReplaceShape(forest, path, new) ==
    [i \in 1..Len(forest) |->
        IF forest[i].path = path THEN new
        ELSE [forest[i] EXCEPT !.kids = ReplaceShape(forest[i].kids, path, new)]]

RECURSIVE RemoveShape(_, _)
\* sp.getparent().remove(sp)
RemoveShape(forest, path) ==
    LET Keep(sh) == sh.path # path
        kept == SelectSeq(forest, Keep)
    IN  [i \in 1..Len(kept) |->
            [kept[i] EXCEPT !.kids = RemoveShape(kept[i].kids, path)]]

\* slide.shapes.add_picture: a new picture at the end of the slide's shapes
AddPicture(forest, slide, replaced) ==
    LET n == Cardinality({i \in 1..Len(forest) : forest[i].path[2] < 0})
    IN  Append(forest, [Picture("translated") EXCEPT !.path = <<slide, -(n + 1)>>])

RECURSIVE TreesOver(_, _), ForestsOver(_, _)
\* shape trees with exactly n shapes and leaves from L
TreesOver(L, n) ==
    IF n = 1 THEN L
    ELSE {Group(f) : f \in ForestsOver(L, n - 1)}
\* shape lists with exactly n shapes in total and leaves from L
ForestsOver(L, n) ==
    IF n = 0 THEN {<<>>}
    ELSE UNION {{<<t>> \o f : t \in TreesOver(L, k), f \in ForestsOver(L, n - k)} :
                   k \in 1..n}

RECURSIVE DocsOver(_, _, _)
\* documents of s slides with exactly n shapes in total and leaves from L
DocsOver(L, s, n) ==
    IF s = 0 THEN (IF n = 0 THEN {<<>>} ELSE {})
    ELSE UNION {{<<f>> \o d : f \in ForestsOver(L, k), d \in DocsOver(L, s - 1, n - k)} :
                   k \in 0..n}

\* a group holding a text frame and a nested group with a text frame
NestedGroupsDocument ==
    LabelDoc(<< <<Group(<<TextFrame(<<"a">>), Group(<<TextFrame(<<" ","b">>)>>)>>)>> >>)

\* Documents for the ledger: text frames with plain, padded and blank text,
\* a table of two cells, a picture; the nested groups; a slide with one
\* shape for which has_text_frame and has_table both hold
LedgerDocuments ==
    LET LedgerLeaves ==
            {TextFrame(<<"a">>), TextFrame(<<" ","b">>), TextFrame(<<" ">>),
             Table(<< <<"a">>, <<" ","b">> >>), Picture("big")}
    IN  {LabelDoc(d) : d \in UNION {DocsOver(LedgerLeaves, s, n) :
                                       s \in 1..MaxLedgerSlides, n \in 0..MaxLedgerShapes}}
        \cup {NestedGroupsDocument,
              LabelDoc(<< <<Shape("shape", TRUE, TRUE, <<"a">>, << <<"a">> >>,
                                  "none", <<>>)>> >>)}

\* Documents for repeated calls: one slide of text frames and small pictures
RewalkInputs ==
    {LabelDoc(d) : d \in UNION {DocsOver({TextFrame(<<"a">>), Picture("icon")}, 1, n) :
                                   n \in 0..MaxRewalkShapes}}

-----------------------------------------------------------------------------
(* DocumentProcessor.process_pptx *)

NoStats == [slides_processed |-> 0, text_frames_translated |-> 0,
            tables_translated |-> 0, images_translated |-> 0]

Translated == <<"T">>

\* what TranslationProcessor.translate_text can return for a non-blank text
TranslateResults(original) ==
    {[success |-> TRUE, translation |-> Translated],
     [success |-> TRUE, translation |-> original],
     [success |-> TRUE, translation |-> <<>>],
     [success |-> FALSE, translation |-> original]}

\* what ImageTranslator.translate_image can do
OverlayResults == {"bytes", "none", "raise"}

TopFrame == stack[Len(stack)]

CurrentPath == TopFrame.shapes[TopFrame.idx + 1]

CurrentShape == Lookup(doc, CurrentPath)

HasNext == wPc = "shapes" /\ stack # <<>> /\ TopFrame.idx < Len(TopFrame.shapes)

Advance(stk) == [stk EXCEPT ![Len(stk)].idx = @ + 1]

\* dictionary assignment original_texts[frame_id] = original_text
Put(ledger, id, t) == {e \in ledger : e.id # id} \cup {[id |-> id, text |-> t]}

\* line 87 and 90: reset the ledger, load the presentation; an unreadable
\* input makes Presentation() raise, and line 193 raises it again
StartWalk ==
    /\ wPc = "start"
    /\ original_texts' = {}
    /\ slide_idx' = 0
    /\ \E readable \in BOOLEAN : wPc' = IF readable THEN "slide" ELSE "failed"
    /\ UNCHANGED <<docIn, doc, image_translator, stack, processed_image_hashes,
                   stats, idLog, overlayLog, output, walkNo, trace, translateLog>>

\* lines 93-101: next slide, snapshot of its shapes, fresh set of hashes
StartSlide ==
    /\ wPc = "slide"
    /\ slide_idx < Len(doc)
    /\ stack' = <<[shapes |-> Paths(doc[slide_idx + 1]), idx |-> 0, parent |-> -1,
                   live |-> FALSE]>>
    /\ processed_image_hashes' = {}
    /\ wPc' = "shapes"
    /\ UNCHANGED <<docIn, doc, image_translator, slide_idx, original_texts,
                   stats, idLog, overlayLog, output, walkNo, trace, translateLog>>

\* the parent_shape_idx handed to _process_group_shape: shape_idx at line 115,
\* the unchanged parent_shape_idx at line 226
GroupParentIdx(depth, frame) == IF depth = 1 THEN frame.idx ELSE frame.parent

\* translateLog after the shape the loop is at has been dispatched to the
\* handlers named; live tells whether the loop runs over the collection
\* itself (group_shape.shapes, line 214) or over a copy (line 97), replaced
\* whether the shape was taken out of its collection (line 421)
Dispatched(log, handlers, replaced) ==
    IF trace
    THEN Append(log, [ev |-> "dispatch", cell |-> 0, path |-> CurrentPath,
                      live |-> TopFrame.live, handlers |-> handlers,
                      replaced |-> replaced])
    ELSE log

\* lines 105-119 and 216-230: recurse into a group. The loop at line 214
\* walks the group's children through lxml's child iterator, which holds the
\* next sibling before the loop body runs; the body only ever removes the
\* current child (line 421), so the children met are those present on entry.
DispatchGroup ==
    /\ HasNext
    /\ CurrentShape.kind = "group"
    /\ stack' = Append(Advance(stack),
                       [shapes |-> Paths(CurrentShape.kids), idx |-> 0,
                        parent |-> GroupParentIdx(Len(stack), TopFrame),
                        live |-> TRUE])
    /\ translateLog' = Dispatched(translateLog, {"group"}, FALSE)
    /\ UNCHANGED <<docIn, doc, image_translator, wPc, slide_idx,
                   processed_image_hashes, original_texts, stats, idLog,
                   overlayLog, output, walkNo, trace>>

\* processed_image_hashes.add(image_hash) left out
AddHashForgotten(hashes, h) == hashes

\* lines 132 and 238
AddHash(hashes, h) == hashes \cup {h}

\* lines 419-427: remove the old picture, add the translated one to the slide
ReplacePicture(d, slide, path) ==
    [d EXCEPT ![slide + 1] = AddPicture(RemoveShape(@, path), slide, path)]

\* lines 123-148 and 233-251: a picture while image translation is enabled
DispatchPicture ==
    /\ HasNext
    /\ CurrentShape.kind = "pic" /\ image_translator
    /\ LET shape == CurrentShape
           readable == shape.blob # "linked"
       IN  IF readable /\ shape.blob \in processed_image_hashes
           THEN /\ translateLog' = Dispatched(translateLog, {"image"}, FALSE)
                /\ UNCHANGED <<doc, processed_image_hashes, stats, overlayLog>>
           ELSE /\ processed_image_hashes' =
                      IF readable THEN AddHash(processed_image_hashes, shape.blob)
                      ELSE processed_image_hashes
                /\ IF ~readable \/ shape.blob = "icon"
                   THEN /\ translateLog' = Dispatched(translateLog, {"image"}, FALSE)
                        /\ UNCHANGED <<doc, stats, overlayLog>>
                   ELSE \E out \in OverlayResults :
                          /\ overlayLog' = Append(overlayLog,
                                 [path |-> shape.path, blob |-> shape.blob])
                          /\ translateLog' =
                                 Dispatched(translateLog, {"image"}, out = "bytes")
                          /\ IF out = "bytes"
                             THEN /\ doc' = ReplacePicture(doc, slide_idx, shape.path)
                                  /\ stats' = [stats EXCEPT !.images_translated = @ + 1]
                             ELSE UNCHANGED <<doc, stats>>
    /\ stack' = Advance(stack)
    /\ UNCHANGED <<docIn, image_translator, wPc, slide_idx, original_texts,
                   idLog, output, walkNo, trace>>

\* lines 309 and 263: frame_id from slide_idx and shape_idx, where shape_idx
\* is the index or "<parent_shape_idx>_group_<nested_idx>"
FrameId(slide, depth, frame) ==
    IF depth = 1 THEN <<slide, frame.idx>>
    ELSE <<slide, frame.parent, frame.idx>>

\* line 323 without result.get('success')
AcceptedWithoutSuccess(res) == res.translation # <<>>

\* line 323
Accepted(res) == res.success /\ res.translation # <<>>

\* an exception raised inside a handler's try block (lines 334 and 361)
Raised == [success |-> FALSE, translation |-> None]

\* no translate_text call is made for a blank text
NoCall == [success |-> FALSE, translation |-> <<>>]

\* what the translate step of a handler can end in for a text
HandlerOutcomes(original) ==
    IF original = <<>> THEN {NoCall}
    ELSE TranslateResults(original) \cup {Raised}

\* lines 301-335 on the shape's text frame
TextFrameAfter(shape, res) ==
    IF Strip(shape.text) # <<>> /\ Accepted(res)
    THEN [shape EXCEPT !.text = res.translation]
    ELSE shape

\* lines 347-349 and 361: the cells the loop gets to translate, which are
\* the non-blank cells before the first one whose translation raises
CellCalled(shape, results, c) ==
    /\ Strip(shape.cells[c]) # <<>>
    /\ \A k \in 1..(c - 1) : ~(Strip(shape.cells[k]) # <<>> /\ results[k] = Raised)

\* lines 346-362 on the shape's table
TableAfter(shape, results) ==
    [shape EXCEPT !.cells =
        [c \in 1..Len(shape.cells) |->
            IF CellCalled(shape, results, c) /\ Accepted(results[c])
            THEN results[c].translation ELSE shape.cells[c]]]

LogEvent(ev, id, path, cell, t, res) ==
    [ev |-> ev, id |-> id, path |-> path, cell |-> cell, text |-> t, res |-> res]

\* the ledger write of line 312 followed by the call of line 315
FrameEvents(shape, frame_id, res) ==
    IF shape.has_text_frame /\ Strip(shape.text) # <<>>
    THEN <<LogEvent("ledger", frame_id, shape.path, 0, Strip(shape.text), NoCall),
           LogEvent("translate", frame_id, shape.path, 0, Strip(shape.text), res)>>
    ELSE <<>>

RECURSIVE CellEvents(_, _, _)
\* the calls of line 350 for cells c, c+1, ...
CellEvents(shape, results, c) ==
    IF ~shape.has_table \/ c > Len(shape.cells) THEN <<>>
    ELSE (IF CellCalled(shape, results, c)
          THEN <<LogEvent("translate", <<>>, shape.path, c,
                          Strip(shape.cells[c]), results[c])>>
          ELSE <<>>) \o CellEvents(shape, results, c + 1)

\* lines 150-173 and 253-276: text frame, then table
DispatchTextTable ==
    /\ HasNext
    /\ CurrentShape.kind # "group"
    /\ ~(CurrentShape.kind = "pic" /\ image_translator)
    /\ LET shape == CurrentShape
           original_text == Strip(shape.text)
           frame_id == FrameId(slide_idx, Len(stack), TopFrame)
           records == shape.has_text_frame /\ original_text # <<>>
       IN  /\ \E res \in HandlerOutcomes(IF shape.has_text_frame THEN original_text
                                         ELSE <<>>) :
               \E cellres \in [1..Len(shape.cells) ->
                                 UNION {HandlerOutcomes(Strip(shape.cells[c])) :
                                           c \in 1..Len(shape.cells)}] :
                 LET s1 == IF shape.has_text_frame THEN TextFrameAfter(shape, res)
                           ELSE shape
                     s2 == IF shape.has_table THEN TableAfter(s1, cellres) ELSE s1
                 IN  /\ \A c \in 1..Len(shape.cells) :
                            cellres[c] \in HandlerOutcomes(Strip(shape.cells[c]))
                     /\ doc' = [doc EXCEPT ![slide_idx + 1] =
                                    ReplaceShape(@, shape.path, s2)]
                     /\ translateLog' =
                            IF trace
                            THEN Dispatched(translateLog,
                                     {h \in {"text_frame", "table"} :
                                         \/ h = "text_frame" /\ shape.has_text_frame
                                         \/ h = "table" /\ shape.has_table},
                                     FALSE)
                                 \o FrameEvents(shape, frame_id, res)
                                 \o CellEvents(shape, cellres, 1)
                            ELSE translateLog
           /\ original_texts' = IF records THEN Put(original_texts, frame_id, original_text)
                                ELSE original_texts
           /\ idLog' = IF records THEN Append(idLog, [id |-> frame_id, path |-> shape.path])
                       ELSE idLog
           /\ stats' = [stats EXCEPT
                  !.text_frames_translated = IF shape.has_text_frame THEN @ + 1 ELSE @,
                  !.tables_translated = IF shape.has_table THEN @ + 1 ELSE @]
    /\ stack' = Advance(stack)
    /\ UNCHANGED <<docIn, image_translator, wPc, slide_idx,
                   processed_image_hashes, overlayLog, output, walkNo, trace>>

\* the loop at line 214 is exhausted: _process_group_shape returns
EndGroup ==
    /\ wPc = "shapes" /\ Len(stack) > 1
    /\ TopFrame.idx = Len(TopFrame.shapes)
    /\ stack' = SubSeq(stack, 1, Len(stack) - 1)
    /\ UNCHANGED <<docIn, doc, image_translator, wPc, slide_idx,
                   processed_image_hashes, original_texts, stats, idLog,
                   overlayLog, output, walkNo, trace, translateLog>>

\* line 175: the loop at line 103 is exhausted
EndSlide ==
    /\ wPc = "shapes" /\ Len(stack) = 1
    /\ TopFrame.idx = Len(TopFrame.shapes)
    /\ stats' = [stats EXCEPT !.slides_processed = @ + 1]
    /\ slide_idx' = slide_idx + 1
    /\ stack' = <<>>
    /\ wPc' = "slide"
    /\ UNCHANGED <<docIn, doc, image_translator, processed_image_hashes,
                   original_texts, idLog, overlayLog, output, walkNo, trace,
                   translateLog>>

NoOutput == [document |-> <<>>, ledger |-> <<>>]

\* a file at the output path: its content and the call that wrote it
File(content) == [content |-> content, walk |-> walkNo]

\* lines 177-193: save the presentation, then the ledger; either can raise
SaveDocument ==
    /\ wPc = "slide"
    /\ slide_idx = Len(doc)
    /\ \E outcome \in {"saved", "save_raises", "ledger_raises"} :
        /\ output' = [document |-> IF outcome = "save_raises" THEN output.document
                                   ELSE <<File(doc)>>,
                      ledger |-> IF outcome = "saved" THEN <<File(original_texts)>>
                                 ELSE output.ledger]
        /\ wPc' = IF outcome = "saved" THEN "done" ELSE "failed"
    /\ UNCHANGED <<docIn, doc, image_translator, slide_idx, stack,
                   processed_image_hashes, original_texts, stats, idLog,
                   overlayLog, walkNo, trace, translateLog>>

\* lines 187-193: what process_pptx hands to its caller
ProcessReturn ==
    [returned |-> wPc = "done", raised |-> wPc = "failed",
     success |-> wPc = "done",
     stats |-> IF wPc = "done" THEN <<stats>> ELSE <<>>]

\* lines 47-83: process_pptx is called again on the same DocumentProcessor,
\* with the same output_path; the document it is given is the same input
\* again, the translated output, or a presentation of one empty slide
ProcessAgain ==
    /\ wPc \in {"done", "failed"}
    /\ walkNo < MaxWalks
    /\ \E d \in {docIn, LabelDoc(doc), LabelDoc(<< <<>> >>)} : docIn' = d /\ doc' = d
    /\ wPc' = "start"
    /\ slide_idx' = 0
    /\ stack' = <<>>
    /\ processed_image_hashes' = {}
    /\ stats' = NoStats
    /\ idLog' = <<>>
    /\ overlayLog' = <<>>
    /\ translateLog' = <<>>
    /\ walkNo' = walkNo + 1
    /\ UNCHANGED <<image_translator, original_texts, output, trace>>

-----------------------------------------------------------------------------
(* ImageTranslator.translate_image and its caller _process_image *)

Repeat(c, n) == [i \in 1..n |-> c]

\* Python's "frag in s" on strings
HasSubstring(s, frag) ==
    \E k \in 0..(Len(s) - Len(frag)) :
        \A i \in 1..Len(frag) : s[k + i] = frag[i]

\* lines 294-302
error_indicators ==
    {<<"I"," ","d","o","n","'","t"," ","s","e","e"," ","a","n","y">>,
     <<"I"," ","d","o","n","'","t"," ","s","e","e">>,
     <<"P","l","e","a","s","e"," ","s","h","a","r","e">>,
     <<"P","l","e","a","s","e"," ","p","r","o","v","i","d","e">>,
     <<"p","r","o","v","i","d","e","d"," ","t","o"," ","t","r","a","n","s","l","a","t","e">>,
     <<"f","o","l","l","o","w","i","n","g"," ","y","o","u","r"," ",
       "i","n","s","t","r","u","c","t","i","o","n","s">>,
     <<"f","o","l","l","o","w","i","n","g"," ","y","o","u","r"," ",
       "s","p","e","c","i","f","i","e","d">>}

\* text_blocks of at most MaxBlocks blocks; bbox is [x, y, width, height],
\* the i-th block lies at x = i and has one of three sizes. The texts are
\* those the OCR locator reports: _parse_ocr_result keeps lines of two or
\* more characters
OcrBlockLists ==
    LET OcrTexts == {<<"a","b">>, <<"a","b","c">>}
        Sizes == {<<20, 100>>, <<40, 25>>, <<300, 100>>}
    IN  UNION {{[i \in 1..n |-> [text |-> f[i].text,
                                 bbox |-> <<i, 0, f[i].size[1], f[i].size[2]>>]] :
                   f \in [1..n -> [text : OcrTexts, size : Sizes]]} :
                  n \in 0..MaxBlocks}

\* translations a backend can produce: a short one, an empty one, an LLM
\* refusal, an LLM refusal with text around it, and texts of 10, 11, 15 and
\* 16 characters around the 5x limits of the two OCR texts
OverlayTranslations ==
    {<<"T">>, <<>>,
     <<"I"," ","d","o","n","'","t"," ","s","e","e">>,
     <<"x","P","l","e","a","s","e"," ","s","h","a","r","e","x">>,
     Repeat("x", 10), Repeat("x", 11), Repeat("x", 15), Repeat("x", 16)}

\* what translate_text returns to translate_image for one block
OverlayRouterResults(original_text) ==
    {[success |-> TRUE, translation |-> t, skipped |-> FALSE, error |-> FALSE] :
        t \in OverlayTranslations}
    \cup {[success |-> TRUE, translation |-> original_text, skipped |-> TRUE,
           error |-> FALSE],
          [success |-> FALSE, translation |-> original_text, skipped |-> FALSE,
           error |-> TRUE]}

NoBytes == [bytes |-> FALSE, drawn |-> <<>>]

\* the picture handed to _process_image is the first shape of the slide
ovShape == ovDoc[1][1]

\* lines 387-409: _process_image up to the translate_image call
ProcessImageCall ==
    /\ ovPc = "process_image"
    /\ ovPc' = IF ovShape.blob = "icon" THEN "done" ELSE "ocr"
    /\ UNCHANGED <<ovDoc, text_blocks, ovIdx, ovResults, blocks_to_translate,
                   ovReturn, images_translated>>

\* lines 214-220: OCR; no block means None
ExtractText ==
    /\ ovPc = "ocr"
    /\ \E blocks \in OcrBlockLists :
        /\ text_blocks' = blocks
        /\ ovPc' = IF blocks = <<>> THEN "returned" ELSE "translate"
    /\ UNCHANGED <<ovDoc, ovIdx, ovResults, blocks_to_translate, ovReturn,
                   images_translated>>

\* the filter without the refusal-phrase test of line 304
KeepsBlockNoRefusalTest(res, original_text) ==
    /\ res.success
    /\ ~res.skipped
    /\ Len(res.translation) <= Len(original_text) * 5

\* lines 284-311: the block goes on to be drawn
KeepsBlock(res, original_text) ==
    /\ res.success
    /\ ~res.skipped
    /\ ~\E indicator \in error_indicators : HasSubstring(res.translation, indicator)
    /\ Len(res.translation) <= Len(original_text) * 5

\* lines 267-323: one round of the block loop; an exception out of
\* translate_text ends translate_image at line 398 with None
TranslateBlock ==
    /\ ovPc = "translate"
    /\ ovIdx < Len(text_blocks)
    /\ LET block == text_blocks[ovIdx + 1]
       IN  \/ \E res \in OverlayRouterResults(block.text) :
                /\ ovResults' = Append(ovResults, res)
                /\ blocks_to_translate' =
                       IF KeepsBlock(res, block.text)
                       THEN Append(blocks_to_translate,
                                   [original |-> block.text,
                                    translated |-> res.translation,
                                    bbox |-> block.bbox])
                       ELSE blocks_to_translate
                /\ ovIdx' = ovIdx + 1
                /\ UNCHANGED <<ovPc, ovReturn>>
           \/ /\ ovPc' = "returned"
              /\ ovReturn' = NoBytes
              /\ UNCHANGED <<ovResults, blocks_to_translate, ovIdx>>
    /\ UNCHANGED <<ovDoc, text_blocks, images_translated>>

\* line 255
font_size == 20

\* lines 590-602 for a width and a height that are non-negative integers:
\* int() of the smaller of char_width * 1.5 and max_height * 0.8, clamped
_calculate_font_size(t, max_width, max_height) ==
    LET n == IF Len(t) > 0 THEN Len(t) ELSE 1
        by_width == (3 * max_width) \div (2 * n)
        by_height == (4 * max_height) \div 5
        fitted == IF by_width < by_height THEN by_width ELSE by_height
    IN  IF fitted < 10 THEN 10 ELSE IF fitted > 50 THEN 50 ELSE fitted

\* lines 256-261 and 354-360: a TrueType font of the size asked for when one
\* of the two font files can be read, PIL's built-in font otherwise
LoadFont(truetype, size) ==
    IF truetype THEN [truetype |-> TRUE, size |-> size]
    ELSE [truetype |-> FALSE, size |-> 0]

RECURSIVE DrawLoop(_, _, _, _)
\* lines 331-366 from block k on: the block, and the font draw.text is
\* given for it
DrawLoop(blocks, k, font, truetype) ==
    IF k > Len(blocks) THEN <<>>
    ELSE LET block_data == blocks[k]
             adjusted_font_size ==
                 _calculate_font_size(block_data.translated, block_data.bbox[3],
                                      block_data.bbox[4])
             used == IF adjusted_font_size # font_size
                     THEN LoadFont(truetype, adjusted_font_size)
                     ELSE font
         IN  <<[original |-> block_data.original,
                translated |-> block_data.translated,
                bbox |-> block_data.bbox,
                font |-> used]>>
             \o DrawLoop(blocks, k + 1, used, truetype)

\* lines 252-400: the font is loaded at size 20; nothing to draw means None;
\* otherwise every kept block is drawn and the image bytes are returned,
\* unless drawing or saving raises
DrawBlocks ==
    /\ ovPc = "translate"
    /\ ovIdx = Len(text_blocks)
    /\ \E raises \in BOOLEAN : \E truetype \in BOOLEAN :
        ovReturn' = IF blocks_to_translate = <<>> \/ raises THEN NoBytes
                    ELSE [bytes |-> TRUE,
                          drawn |-> DrawLoop(blocks_to_translate, 1,
                                             LoadFont(truetype, font_size),
                                             truetype)]
    /\ ovPc' = "returned"
    /\ UNCHANGED <<ovDoc, text_blocks, ovIdx, ovResults, blocks_to_translate,
                   images_translated>>

\* lines 411-433 and 143-144: replace the picture when bytes came back
ProcessImageReturn ==
    /\ ovPc = "returned"
    /\ IF ovReturn.bytes
       THEN /\ ovDoc' = ReplacePicture(ovDoc, 0, ovShape.path)
            /\ images_translated' = images_translated + 1
       ELSE UNCHANGED <<ovDoc, images_translated>>
    /\ ovPc' = "done"
    /\ UNCHANGED <<text_blocks, ovIdx, ovResults, blocks_to_translate, ovReturn>>

-----------------------------------------------------------------------------
(* api/routes/editor.py: get_slide_preview and update_document_content *)

\* str() of a small non-negative integer
Str(n) == <<(<<"0","1","2","3","4","5","6","7","8","9">>)[n + 1]>>

\* str.startswith
StartsWith(s, prefix) ==
    Len(prefix) <= Len(s) /\ SubSeq(s, 1, Len(prefix)) = prefix

\* files in OUTPUT_FOLDER
EditFilenames == {<<"a">>, <<"a","b">>, <<"a","_","b">>}

\* translated documents: text boxes and pictures, possibly grouped
EditDocuments ==
    {LabelDoc(d) : d \in UNION {DocsOver({TextFrame(<<"a">>), Picture("icon")}, s, n) :
                                   s \in 1..MaxEditSlides, n \in 0..MaxEditShapes}}

RECURSIVE SchemeIds(_, _, _, _)
\* the frame ids the walker's scheme gives the text frames of a shape list
\* (lines 150-161 for top-level shapes, lines 253-265 inside groups)
SchemeIds(forest, slide, depth, parent) ==
    UNION {LET sh == forest[i]
               frame == [idx |-> i - 1, parent |-> parent]
           IN  IF sh.kind = "group"
               THEN SchemeIds(sh.kids, slide, depth + 1, GroupParentIdx(depth, frame))
               ELSE IF sh.has_text_frame
                    THEN {[id |-> FrameId(slide, depth, frame), path |-> sh.path]}
                    ELSE {} : i \in 1..Len(forest)}

WalkerIds(d) == UNION {SchemeIds(d[s], s - 1, 1, -1) : s \in 1..Len(d)}

\* edits_map (line 335): at most MaxEdits ids, each with its new text. The
\* ids a request can name are those of the document's text frames and one
\* that no shape has; the texts are one character or empty
EditMaps(d) ==
    LET EditTexts == {<<"e">>, <<>>}
        RequestIds == {e.id : e \in WalkerIds(d)} \cup {<<0, 9>>}
    IN  {m \in SUBSET [id : RequestIds, text : EditTexts] :
            /\ Cardinality(m) <= MaxEdits
            /\ \A x \in m : \A y \in m : x.id = y.id => x = y}

InMap(m, id) == \E x \in m : x.id = id

MapGet(m, id) == (CHOOSE x \in m : x.id = id).text

\* lines 338-349: the loops over prs.slides and slide.shapes
ApplyEdits(d, m) ==
    [s \in 1..Len(d) |->
        [i \in 1..Len(d[s]) |->
            IF d[s][i].has_text_frame /\ InMap(m, <<s - 1, i - 1>>)
            THEN [d[s][i] EXCEPT !.text = MapGet(m, <<s - 1, i - 1>>)]
            ELSE d[s][i]]]

\* lines 200-207 and 338-341: the id document-content reports and
\* update-content looks up for each text frame among a slide's own shapes
ContentIds(d) ==
    UNION {{[id |-> <<s - 1, i - 1>>, path |-> d[s][i].path] :
               i \in {j \in 1..Len(d[s]) : d[s][j].has_text_frame}} :
              s \in 1..Len(d)}

\* line 113
CacheKey(filename, slide_number, mtime) ==
    filename \o <<"_">> \o Str(slide_number) \o <<"_">> \o Str(mtime)

\* line 157
cache_limit == 20

CacheKeys == {_slide_image_cache[k].key : k \in 1..Len(_slide_image_cache)}

\* asked is the filename, slide number and modification time of a preview
\* request; file, slide, mtime and version are those the image that was
\* sent had been made for
NoResponse ==
    [op |-> "none", status |-> 0, cached |-> FALSE, file |-> <<>>, version |-> 0,
     slide |-> 0, mtime |-> 0, asked |-> <<>>]

\* the entry inserted last is deleted
EvictNewest(cache) ==
    IF Len(cache) > cache_limit THEN SubSeq(cache, 1, Len(cache) - 1) ELSE cache

\* lines 157-159: beyond cache_limit entries the first key of the dict, the
\* one inserted earliest, is deleted
Evict(cache) == IF Len(cache) > cache_limit THEN Tail(cache) ELSE cache

NoEdit == [file |-> <<>>, edits |-> {}, before |-> <<>>, cacheBefore |-> {}]

\* lines 106-168: a cached image is served, or a placeholder is drawn and
\* cached, dropping the oldest entry beyond cache_limit; version records how
\* many saves the file had seen when the image was made
GetSlidePreview ==
    /\ requests < MaxRequests
    /\ \E filename \in EditFilenames : \E slide_number \in 0..1 :
        LET file == files[filename]
            cache_key == CacheKey(filename, slide_number, file.mtime)
            entry == [key |-> cache_key, file |-> filename, version |-> file.version,
                      slide |-> slide_number, mtime |-> file.mtime]
            asked == <<filename, slide_number, file.mtime>>
        IN  IF ~file.exists
            THEN /\ response' = [NoResponse EXCEPT !.op = "preview", !.status = 404]
                 /\ UNCHANGED _slide_image_cache
            ELSE IF cache_key \in CacheKeys
            THEN LET hit == CHOOSE k \in 1..Len(_slide_image_cache) :
                                _slide_image_cache[k].key = cache_key
                 IN  /\ response' = [op |-> "preview", status |-> 200, cached |-> TRUE,
                                     file |-> _slide_image_cache[hit].file,
                                     version |-> _slide_image_cache[hit].version,
                                     slide |-> _slide_image_cache[hit].slide,
                                     mtime |-> _slide_image_cache[hit].mtime,
                                     asked |-> asked]
                     /\ UNCHANGED _slide_image_cache
            ELSE /\ _slide_image_cache' = Evict(Append(_slide_image_cache, entry))
                 /\ response' = [op |-> "preview", status |-> 200, cached |-> FALSE,
                                 file |-> filename, version |-> file.version,
                                 slide |-> slide_number, mtime |-> file.mtime,
                                 asked |-> asked]
    /\ requests' = requests + 1
    /\ UNCHANGED <<files, lastEdit>>

\* the cache is left as it is
ClearCacheForgotten(cache, filename) == cache

\* lines 354-359
ClearCache(cache, filename) ==
    LET Kept(e) == ~StartsWith(e.key, filename \o <<"_">>)
    IN  SelectSeq(cache, Kept)

\* lines 327-373: apply the edits, save, clear the file's cache entries; the
\* saved file's mtime is later than or, on a coarse clock, equal to the old
\* one; a save that raises is answered with 500
UpdateDocumentContent ==
    /\ requests < MaxRequests
    /\ \E filename \in EditFilenames :
        LET file == files[filename]
        IN  IF ~file.exists
            THEN /\ response' = [NoResponse EXCEPT !.op = "update", !.status = 404]
                 /\ UNCHANGED <<files, _slide_image_cache, lastEdit>>
            ELSE \E edits_map \in EditMaps(file.doc) :
                 \E saved \in BOOLEAN : \E tick \in 0..1 :
                    IF ~saved
                    THEN /\ response' = [NoResponse EXCEPT !.op = "update", !.status = 500]
                         /\ UNCHANGED <<files, _slide_image_cache, lastEdit>>
                    ELSE /\ files' = [files EXCEPT ![filename] =
                                [file EXCEPT !.doc = ApplyEdits(file.doc, edits_map),
                                             !.mtime = file.mtime + tick,
                                             !.version = file.version + 1]]
                         /\ _slide_image_cache' =
                                ClearCache(_slide_image_cache, filename)
                         /\ lastEdit' = [file |-> filename, edits |-> edits_map,
                                         before |-> file.doc,
                                         cacheBefore |-> CacheKeys]
                         /\ response' = [NoResponse EXCEPT
                                             !.op = "update", !.status = 200,
                                             !.file = filename,
                                             !.version = file.version + 1]
    /\ requests' = requests + 1

-----------------------------------------------------------------------------
(* DocumentProcessor._replace_text_preserve_format *)

\* Optional values: <<>> is None, <<v>> is the value v; an Optional[str] is
\* None or a character tuple
Run(t, size, name, bold, italic) ==
    [text |-> t, size |-> size, name |-> name, bold |-> bold, italic |-> italic]

\* a run as add_run() or the text setter makes it: no font attribute set
PlainRun(t) == Run(t, <<>>, None, <<>>, <<>>)

\* text frames of up to MaxParagraphs paragraphs whose first paragraph has
\* up to MaxRuns runs; the first run has any size, name, bold and italic,
\* runs after the first one are bold runs "b"
TextFrames ==
    LET FontSizes == {<<>>, <<0>>, <<12>>}
        FontNames == {None, <<>>, <<"A">>}
        FontFlags == {<<>>, <<TRUE>>, <<FALSE>>}
        FirstRuns ==
            {Run(<<"a">>, size, name, bold, italic) :
                size \in FontSizes, name \in FontNames, bold \in FontFlags,
                italic \in FontFlags}
    IN  {<<>>}
        \cup {<<IF r = 0 THEN <<>>
                ELSE <<first>> \o [i \in 1..(r - 1) |-> Run(<<"b">>, <<>>, None, <<TRUE>>, <<>>)]>>
              \o [i \in 1..(n - 1) |-> <<Run(<<"b">>, <<>>, None, <<TRUE>>, <<>>)>>] :
                 first \in FirstRuns, r \in 0..MaxRuns, n \in 1..MaxParagraphs}

\* text_frame.text = new_text for a text of one line
SetText(t) == << IF t = <<>> THEN <<>> ELSE <<PlainRun(t)>> >>

\* Python truthiness of an Optional[int]
TruthyInt(v) == v # <<>> /\ v[1] # 0

\* lines 447-476: the new run gets size and name back when they are truthy
\* (lines 465-468), bold and italic when they are not None (lines 469-472)
ReplacePreservingFormat(frame, t) ==
    LET first_run == frame[1][1]
        run == PlainRun(t)
    IN  IF frame # <<>> /\ frame[1] # <<>>
        THEN << <<[run EXCEPT
                     !.size = IF TruthyInt(first_run.size) THEN first_run.size ELSE @,
                     !.name = IF Truthy(first_run.name) THEN first_run.name ELSE @,
                     !.bold = IF first_run.bold # <<>> THEN first_run.bold ELSE @,
                     !.italic = IF first_run.italic # <<>> THEN first_run.italic ELSE @]>> >>
        ELSE SetText(t)

ReplaceText ==
    /\ rPc = "call"
    /\ text_frame' = ReplacePreservingFormat(text_frame, new_text)
    /\ rPc' = "done"
    /\ UNCHANGED <<new_text, frameBefore>>

-----------------------------------------------------------------------------
(* ImageTranslator._sample_text_colors and _calculate_contrast *)

\* colours whose channel values are taken at ChannelSteps equal steps of 0..255
Colours ==
    LET ChannelValues == {(255 * k) \div ChannelSteps : k \in 0..ChannelSteps}
    IN  {<<r, g, b>> : r \in ChannelValues, g \in ChannelValues, b \in ChannelValues}

\* list(region.getdata()) for a region of at most MaxPixels pixels
Regions == UNION {[1..n -> Colours] : n \in 1..MaxPixels}

Black == <<0, 0, 0>>
White == <<255, 255, 255>>

\* sum(color)
ChannelSum(c) == c[1] + c[2] + c[3]

\* Counter(pixels)[c]
PixelCount(px, c) == Cardinality({i \in 1..Len(px) : px[i] = c})

\* Counter(pixels).most_common(1)[0][0]: the colour counted most often, the
\* one met first among equals
MostCommon(px) ==
    LET first == {i \in 1..Len(px) : \A j \in 1..(i - 1) : px[j] # px[i]}
        best == CHOOSE i \in first :
                    \A j \in first :
                        \/ PixelCount(px, px[i]) > PixelCount(px, px[j])
                        \/ (PixelCount(px, px[i]) = PixelCount(px, px[j]) /\ i <= j)
    IN  px[best]

\* lines 563-566 for one channel value x in 0..255, as ten-thousandths
\* rounded to the nearest: x/255/12.92 up to 0.03928, else
\* ((x/255 + 0.055)/1.055) ** 2.4
Linear ==
    <<
      0, 3, 6, 9, 12, 15, 18, 21, 24, 27, 30, 33,
      37, 40, 44, 48, 52, 56, 60, 65, 70, 75, 80, 86,
      91, 97, 103, 110, 116, 123, 130, 137, 144, 152, 160, 168,
      176, 185, 194, 203, 212, 222, 232, 242, 252, 262, 273, 284,
      296, 307, 319, 331, 343, 356, 369, 382, 395, 409, 423, 437,
      452, 467, 482, 497, 513, 529, 545, 561, 578, 595, 612, 630,
      648, 666, 685, 704, 723, 742, 762, 782, 802, 823, 844, 865,
      887, 908, 931, 953, 976, 999, 1022, 1046, 1070, 1095, 1119, 1144,
      1170, 1195, 1221, 1248, 1274, 1301, 1329, 1356, 1384, 1413, 1441, 1470,
      1500, 1529, 1559, 1590, 1620, 1651, 1683, 1714, 1746, 1779, 1812, 1845,
      1878, 1912, 1946, 1981, 2016, 2051, 2086, 2122, 2159, 2195, 2232, 2270,
      2307, 2346, 2384, 2423, 2462, 2502, 2542, 2582, 2623, 2664, 2705, 2747,
      2789, 2831, 2874, 2918, 2961, 3005, 3050, 3095, 3140, 3185, 3231, 3278,
      3325, 3372, 3419, 3467, 3515, 3564, 3613, 3663, 3712, 3763, 3813, 3864,
      3916, 3968, 4020, 4072, 4125, 4179, 4233, 4287, 4342, 4397, 4452, 4508,
      4564, 4621, 4678, 4735, 4793, 4851, 4910, 4969, 5029, 5089, 5149, 5210,
      5271, 5333, 5395, 5457, 5520, 5583, 5647, 5711, 5776, 5841, 5906, 5972,
      6038, 6105, 6172, 6240, 6308, 6376, 6445, 6514, 6584, 6654, 6724, 6795,
      6867, 6939, 7011, 7084, 7157, 7231, 7305, 7379, 7454, 7529, 7605, 7682,
      7758, 7835, 7913, 7991, 8070, 8148, 8228, 8308, 8388, 8469, 8550, 8632,
      8714, 8796, 8879, 8963, 9047, 9131, 9216, 9301, 9387, 9473, 9560, 9647,
      9734, 9823, 9911, 10000 >>

\* line 567, in units of 1e-8
luminance(rgb) ==
    2126 * Linear[rgb[1] + 1] + 7152 * Linear[rgb[2] + 1] + 722 * Linear[rgb[3] + 1]

\* 0.05 in units of 1e-8
Flare == 5000000

\* lines 569-576: the ratio (lighter + 0.05) / (darker + 0.05), kept as its
\* two terms
_calculate_contrast(color1, color2) ==
    LET l1 == luminance(color1)
        l2 == luminance(color2)
    IN  [lighter |-> (IF l1 >= l2 THEN l1 ELSE l2) + Flare,
         darker |-> (IF l1 >= l2 THEN l2 ELSE l1) + Flare]

\* contrast < 1.5
BelowMinimum(contrast) == 2 * contrast.lighter < 3 * contrast.darker

\* bg_brightness > 1 in place of bg_brightness > 128
IsLightAboveOne(bg_color) == ChannelSum(bg_color) > 3

\* lines 446 and 470: bg_brightness = sum(bg_color) / 3 > 128
IsLight(bg_color) == ChannelSum(bg_color) > 384

\* lines 444-510
_sample_text_colors(px) ==
    LET bg_color == MostCommon(px)
        Counted(lo, hi) ==
            Cardinality({i \in 1..Len(px) :
                            ChannelSum(px[i]) >= lo /\ ChannelSum(px[i]) <= hi})
        black_count == Counted(0, 30)
        white_count == Counted(735, 765)
        dark_count == Counted(31, 100)
        text_color ==
            IF IsLight(bg_color)
            THEN (IF black_count > 0 THEN Black
                  ELSE IF dark_count > 0 THEN Black ELSE Black)
            ELSE (IF white_count > 0 THEN White ELSE White)
        contrast == _calculate_contrast(text_color, bg_color)
        forced ==
            IF BelowMinimum(contrast)
            THEN (IF IsLight(bg_color) THEN Black ELSE White)
            ELSE text_color
    IN  [text_color |-> forced, bg_color |-> bg_color]

NoColours == [text_color |-> Black, bg_color |-> White]

SampleTextColors ==
    /\ cPc = "call"
    /\ sampled' = _sample_text_colors(pixels)
    /\ cPc' = "done"
    /\ UNCHANGED pixels

-----------------------------------------------------------------------------
(* TranslationProcessor.batch_translate over AzureTranslator.batch_translate *)

\* what the service answers for one text of the body: an element with
\* 'translations' and 'detectedLanguage', or one without 'translations'
BatchElements(t) ==
    {[has |-> FALSE, translated_text |-> None, detected_language |-> None]} \cup
    {[has |-> TRUE, translated_text |-> <<"p">> \o t, detected_language |-> d] :
        d \in {<<"f","r">>, <<"e","n">>}}

\* azure_translator.py lines 69-114: one POST with one body element per text;
\* raise_for_status, a body that is not JSON or an element lacking a key
\* raise; else one result per element of the answer, {} for an element
\* without 'translations'. The service answers a body of n texts with n
\* elements in the order of the body.
AzureBatchTranslate ==
    /\ batchPc = "call"
    /\ posts' = posts + 1
    /\ \/ /\ batchPc' = "raised"
          /\ UNCHANGED azure_results
       \/ /\ \E answer \in [1..Len(texts) -> UNION {BatchElements(t) : t \in Range(texts)}] :
                /\ \A i \in 1..Len(texts) : answer[i] \in BatchElements(texts[i])
                /\ azure_results' = answer
          /\ batchPc' = "azure"
    /\ UNCHANGED <<texts, batchTarget, batchSource, translations>>

\* translation_processor.py lines 150-159 with elements that carry no
\* translation left out
BatchResultsOfTranslated(results, target) ==
    LET kept == SelectSeq([i \in 1..Len(results) |-> i], LAMBDA i : results[i].has)
    IN  [k \in 1..Len(kept) |->
            [success |-> TRUE,
             translation |-> results[kept[k]].translated_text,
             source_language |-> results[kept[k]].detected_language,
             target_language |-> target,
             method |-> "azure",
             index |-> k - 1]]

\* translation_processor.py lines 150-159
BatchResults(results, target) ==
    [k \in 1..Len(results) |->
        [success |-> TRUE,
         translation |-> AzureGet(results[k], "translated_text", <<>>),
         source_language |-> AzureGet(results[k], "detected_language", None),
         target_language |-> target,
         method |-> "azure",
         index |-> k - 1]]

\* translation_processor.py lines 147-161
BatchTranslateReturn ==
    /\ batchPc = "azure"
    /\ translations' = BatchResults(azure_results, batchTarget)
    /\ batchPc' = "done"
    /\ UNCHANGED <<texts, batchTarget, batchSource, posts, azure_results>>

-----------------------------------------------------------------------------
(* api/routes/translation.py: the /translate route around translate_text *)

\* TranslationResponse(**result): success, translation, target_language and
\* method are required; the dictionary returned for an empty text has
\* neither target_language nor method
ValidTranslationResponse(res) == res.method # "none" /\ res.translation # None

\* lines 21-42, once processor.translate_text has returned: the response
\* model is built inside the try, and any exception becomes a 500
TranslateRoute ==
    /\ pc = "done" /\ httpStatus = 0
    /\ httpStatus' = IF ValidTranslationResponse(result) THEN 200 ELSE 500

-----------------------------------------------------------------------------
(* ImageTranslator.extract_text_from_image and _parse_ocr_result *)

max_attempts == 10

\* ord() of the characters OCR texts are made of here: a space, two Latin
\* letters, a Han character, a Hiragana, a Katakana and a Hangul character,
\* and a fullwidth Latin letter
CodePoint(c) ==
    CASE c = " " -> 32
      [] c = "a" -> 97
      [] c = "b" -> 98
      [] c = "U+4E2D" -> 20013
      [] c = "U+3042" -> 12354
      [] c = "U+30AB" -> 12459
      [] c = "U+AC00" -> 44032
      [] c = "U+FF21" -> 65313

\* lines 145-183 for the lines of the pages in order; a line is its text
\* and whether its boundingBox has the 8 numbers; the block keeps the
\* line's number in place of the box
_parse_ocr_result(lines) ==
    LET stripped(i) == Strip(lines[i].text)
        is_cjk(i) ==
            \E k \in 1..Len(stripped(i)) :
                LET c == CodePoint(stripped(i)[k])
                IN  \/ (19968 <= c /\ c <= 40959)
                    \/ (12352 <= c /\ c <= 12447)
                    \/ (12448 <= c /\ c <= 12543)
                    \/ (44032 <= c /\ c <= 55215)
        kept(i) ==
            /\ ~(stripped(i) = <<>> \/ Len(stripped(i)) < 2)
            /\ ~(Len(stripped(i)) = 1 /\ ~is_cjk(i))
            /\ stripped(i) # <<>> /\ lines[i].has_box
        idx == SelectSeq([i \in 1..Len(lines) |-> i], kept)
    IN  [k \in 1..Len(idx) |-> [text |-> stripped(idx[k]), bbox |-> idx[k]]]

\* lines 47-94: the credentials test, the conversion of WMF/EMF, the POST
\* and the Operation-Location header
SubmitImage ==
    /\ ocrPc = "call"
    /\ \E out \in {"unconfigured", "unconvertible", "exception", "nohandle", "handle"} :
          IF out = "handle"
          THEN ocrPc' = "poll" /\ UNCHANGED ocrExit
          ELSE ocrPc' = "done" /\ ocrExit' = out
    /\ UNCHANGED <<ocrAttempt, polls, sleeps, ocrLines, ocrBlocks>>

\* attempt <= max_attempts
MayPollOnceMore(a) == a <= max_attempts

\* line 101: while attempt < max_attempts
MayPoll(a) == a < max_attempts

\* lines 101-118: one round of the poll loop; the answer is a status other
\* than succeeded and failed, failed, succeeded with lines, or an exception
PollResult ==
    /\ ocrPc = "poll" /\ MayPoll(ocrAttempt)
    /\ sleeps' = sleeps + 1
    /\ polls' = polls + 1
    /\ \/ /\ ocrAttempt' = ocrAttempt + 1
          /\ UNCHANGED <<ocrLines, ocrBlocks, ocrExit, ocrPc>>
       \/ /\ \E out \in {"failed", "exception"} : ocrExit' = out
          /\ ocrPc' = "done"
          /\ UNCHANGED <<ocrAttempt, ocrLines, ocrBlocks>>
       \/ /\ \E lines \in UNION {[1..n ->
                    [text : {<<>>, <<" ">>, <<"a">>, <<"a", " ">>, <<"a", "b">>,
                             <<"U+4E2D">>, <<"U+3042">>, <<"U+30AB">>, <<"U+AC00">>,
                             <<"U+FF21">>, <<"U+4E2D", "U+4E2D">>},
                     has_box : BOOLEAN]] : n \in 0..MaxLines} :
                /\ ocrLines' = lines
                /\ ocrBlocks' = _parse_ocr_result(lines)
          /\ ocrExit' = "succeeded"
          /\ ocrPc' = "done"
          /\ UNCHANGED ocrAttempt

\* lines 120-121: the loop ended without a terminal status
PollingTimedOut ==
    /\ ocrPc = "poll" /\ ~MayPoll(ocrAttempt)
    /\ ocrExit' = "timeout"
    /\ ocrPc' = "done"
    /\ UNCHANGED <<ocrAttempt, polls, sleeps, ocrLines, ocrBlocks>>

-----------------------------------------------------------------------------
(* Specifications *)

NormIdle ==
    /\ lang_code = <<>> /\ normOnce = <<>> /\ normTwice = <<>>
    /\ normUpper = <<>> /\ normPc = "idle"

RouterIdle ==
    /\ text = <<>> /\ target_language = <<>> /\ source_language = None
    /\ force_llm = FALSE /\ use_llm_enhancement = FALSE
    /\ openrouter_service = FALSE /\ pc = "idle" /\ attempt = 0
    /\ azure_result = AzureEmpty /\ callLog = <<>> /\ result = NoResult

WalkIdle ==
    /\ docIn = <<>> /\ doc = <<>> /\ image_translator = FALSE /\ wPc = "idle"
    /\ slide_idx = 0 /\ stack = <<>> /\ processed_image_hashes = {}
    /\ original_texts = {} /\ stats = NoStats /\ idLog = <<>>
    /\ overlayLog = <<>> /\ output = NoOutput
    /\ walkNo = 0 /\ trace = FALSE /\ translateLog = <<>>

OverlayIdle ==
    /\ ovDoc = <<>> /\ ovPc = "idle" /\ text_blocks = <<>> /\ ovIdx = 0
    /\ ovResults = <<>> /\ blocks_to_translate = <<>> /\ ovReturn = NoBytes
    /\ images_translated = 0

EditIdle ==
    /\ files = <<>> /\ _slide_image_cache = <<>> /\ response = NoResponse
    /\ lastEdit = NoEdit /\ requests = 0

ReplaceIdle ==
    /\ text_frame = <<>> /\ new_text = <<>> /\ frameBefore = <<>> /\ rPc = "idle"

ColourIdle == pixels = <<>> /\ sampled = NoColours /\ cPc = "idle"

BatchIdle ==
    /\ texts = <<>> /\ batchTarget = None /\ batchSource = None /\ posts = 0
    /\ azure_results = <<>> /\ translations = <<>> /\ batchPc = "idle"

RouteIdle == httpStatus = 0

OcrIdle ==
    /\ ocrAttempt = 0 /\ polls = 0 /\ sleeps = 0 /\ ocrLines = <<>>
    /\ ocrBlocks = <<>> /\ ocrExit = "none" /\ ocrPc = "idle"

InitRouter ==
    /\ text \in Texts
    /\ target_language \in TargetLanguages
    /\ source_language \in SourceLanguages
    /\ force_llm \in BOOLEAN
    /\ openrouter_service \in BOOLEAN
    /\ \E flag \in BOOLEAN : use_llm_enhancement = InitEnhancement(flag, openrouter_service)
    /\ pc = "call"
    /\ attempt = 0
    /\ azure_result = AzureEmpty
    /\ callLog = <<>>
    /\ result = NoResult
    /\ NormIdle
    /\ WalkIdle
    /\ OverlayIdle
    /\ EditIdle
    /\ ReplaceIdle
    /\ ColourIdle
    /\ BatchIdle
    /\ RouteIdle
    /\ OcrIdle

NextRouter ==
    \/ (ValidateInput /\ UNCHANGED <<normVars, walkVars, overlayVars, editVars, replaceVars, colourVars, batchVars, routeVars, ocrVars>>)
    \/ (AzureCall /\ UNCHANGED <<normVars, walkVars, overlayVars, editVars, replaceVars, colourVars, batchVars, routeVars, ocrVars>>)
    \/ (SkipCheck /\ UNCHANGED <<normVars, walkVars, overlayVars, editVars, replaceVars, colourVars, batchVars, routeVars, ocrVars>>)
    \/ (LlmCall /\ UNCHANGED <<normVars, walkVars, overlayVars, editVars, replaceVars, colourVars, batchVars, routeVars, ocrVars>>)
    \/ (HandleException /\ UNCHANGED <<normVars, walkVars, overlayVars, editVars, replaceVars, colourVars, batchVars, routeVars, ocrVars>>)

SpecRouter == InitRouter /\ [][NextRouter]_vars

InitNorm ==
    /\ lang_code \in NormInputs
    /\ normOnce = <<>> /\ normTwice = <<>> /\ normUpper = <<>>
    /\ normPc = "input"
    /\ RouterIdle
    /\ WalkIdle
    /\ OverlayIdle
    /\ EditIdle
    /\ ReplaceIdle
    /\ ColourIdle
    /\ BatchIdle
    /\ RouteIdle
    /\ OcrIdle

NextNorm == ApplyNormalize /\ UNCHANGED <<routerVars, walkVars, overlayVars, editVars, replaceVars, colourVars, batchVars, routeVars, ocrVars>>

SpecNorm == InitNorm /\ [][NextNorm]_vars

\* __init__ (lines 40-42) and the arguments of process_pptx
InitWalk ==
    /\ docIn \in Documents
    /\ doc = docIn
    /\ image_translator \in BOOLEAN
    /\ wPc = "start"
    /\ slide_idx = 0
    /\ stack = <<>>
    /\ processed_image_hashes = {}
    /\ original_texts = {}
    /\ stats = NoStats
    /\ idLog = <<>>
    /\ overlayLog = <<>>
    /\ output = NoOutput
    /\ walkNo = 1
    /\ trace = FALSE
    /\ translateLog = <<>>
    /\ RouterIdle
    /\ NormIdle
    /\ OverlayIdle
    /\ EditIdle
    /\ ReplaceIdle
    /\ ColourIdle
    /\ BatchIdle
    /\ RouteIdle
    /\ OcrIdle

NextWalk ==
    \/ (StartWalk /\ UNCHANGED <<routerVars, normVars, overlayVars, editVars, replaceVars, colourVars, batchVars, routeVars, ocrVars>>)
    \/ (StartSlide /\ UNCHANGED <<routerVars, normVars, overlayVars, editVars, replaceVars, colourVars, batchVars, routeVars, ocrVars>>)
    \/ (DispatchGroup /\ UNCHANGED <<routerVars, normVars, overlayVars, editVars, replaceVars, colourVars, batchVars, routeVars, ocrVars>>)
    \/ (DispatchPicture /\ UNCHANGED <<routerVars, normVars, overlayVars, editVars, replaceVars, colourVars, batchVars, routeVars, ocrVars>>)
    \/ (DispatchTextTable /\ UNCHANGED <<routerVars, normVars, overlayVars, editVars, replaceVars, colourVars, batchVars, routeVars, ocrVars>>)
    \/ (EndGroup /\ UNCHANGED <<routerVars, normVars, overlayVars, editVars, replaceVars, colourVars, batchVars, routeVars, ocrVars>>)
    \/ (EndSlide /\ UNCHANGED <<routerVars, normVars, overlayVars, editVars, replaceVars, colourVars, batchVars, routeVars, ocrVars>>)
    \/ (SaveDocument /\ UNCHANGED <<routerVars, normVars, overlayVars, editVars, replaceVars, colourVars, batchVars, routeVars, ocrVars>>)

SpecWalk == InitWalk /\ [][NextWalk]_vars

InitLedger ==
    /\ docIn \in LedgerDocuments
    /\ doc = docIn
    /\ image_translator \in BOOLEAN
    /\ wPc = "start"
    /\ slide_idx = 0
    /\ stack = <<>>
    /\ processed_image_hashes = {}
    /\ original_texts = {}
    /\ stats = NoStats
    /\ idLog = <<>>
    /\ overlayLog = <<>>
    /\ output = NoOutput
    /\ walkNo = 1
    /\ trace = TRUE
    /\ translateLog = <<>>
    /\ RouterIdle
    /\ NormIdle
    /\ OverlayIdle
    /\ EditIdle
    /\ ReplaceIdle
    /\ ColourIdle
    /\ BatchIdle
    /\ RouteIdle
    /\ OcrIdle

SpecLedger == InitLedger /\ [][NextWalk]_vars

InitRewalk ==
    /\ docIn \in RewalkInputs
    /\ doc = docIn
    /\ image_translator \in BOOLEAN
    /\ wPc = "start"
    /\ slide_idx = 0
    /\ stack = <<>>
    /\ processed_image_hashes = {}
    /\ original_texts = {}
    /\ stats = NoStats
    /\ idLog = <<>>
    /\ overlayLog = <<>>
    /\ output = NoOutput
    /\ walkNo = 1
    /\ trace = FALSE
    /\ translateLog = <<>>
    /\ RouterIdle
    /\ NormIdle
    /\ OverlayIdle
    /\ EditIdle
    /\ ReplaceIdle
    /\ ColourIdle
    /\ BatchIdle
    /\ RouteIdle
    /\ OcrIdle

NextRewalk ==
    \/ NextWalk
    \/ (ProcessAgain /\ UNCHANGED <<routerVars, normVars, overlayVars, editVars, replaceVars, colourVars, batchVars, routeVars, ocrVars>>)

SpecRewalk == InitRewalk /\ [][NextRewalk]_vars

\* a slide whose first shape is a picture, followed by a text box
OverlaySlides ==
    {LabelDoc(<< <<Picture(b), TextFrame(<<"a">>)>> >>) : b \in {"big", "icon"}}

InitOverlay ==
    /\ ovDoc \in OverlaySlides
    /\ ovPc = "process_image"
    /\ text_blocks = <<>>
    /\ ovIdx = 0
    /\ ovResults = <<>>
    /\ blocks_to_translate = <<>>
    /\ ovReturn = NoBytes
    /\ images_translated = 0
    /\ RouterIdle
    /\ NormIdle
    /\ WalkIdle
    /\ EditIdle
    /\ ReplaceIdle
    /\ ColourIdle
    /\ BatchIdle
    /\ RouteIdle
    /\ OcrIdle

NextOverlay ==
    \/ (ProcessImageCall /\ UNCHANGED <<routerVars, normVars, walkVars, editVars, replaceVars, colourVars, batchVars, routeVars, ocrVars>>)
    \/ (ExtractText /\ UNCHANGED <<routerVars, normVars, walkVars, editVars, replaceVars, colourVars, batchVars, routeVars, ocrVars>>)
    \/ (TranslateBlock /\ UNCHANGED <<routerVars, normVars, walkVars, editVars, replaceVars, colourVars, batchVars, routeVars, ocrVars>>)
    \/ (DrawBlocks /\ UNCHANGED <<routerVars, normVars, walkVars, editVars, replaceVars, colourVars, batchVars, routeVars, ocrVars>>)
    \/ (ProcessImageReturn /\ UNCHANGED <<routerVars, normVars, walkVars, editVars, replaceVars, colourVars, batchVars, routeVars, ocrVars>>)

SpecOverlay == InitOverlay /\ [][NextOverlay]_vars

\* the output folder holds a translated document under the name "a", a
\* presentation of one empty slide under the name "ab" and possibly another
\* one under the name "a_b"
InitEdit ==
    /\ \E d \in EditDocuments : \E present \in BOOLEAN :
          files = [f \in EditFilenames |->
                      [exists |-> f # <<"a","_","b">> \/ present,
                       doc |-> IF f = <<"a">> THEN d ELSE LabelDoc(<< <<>> >>),
                       mtime |-> 0, version |-> 0]]
    /\ _slide_image_cache = <<>>
    /\ response = NoResponse
    /\ lastEdit = NoEdit
    /\ requests = 0
    /\ RouterIdle
    /\ NormIdle
    /\ WalkIdle
    /\ OverlayIdle
    /\ ReplaceIdle
    /\ ColourIdle
    /\ BatchIdle
    /\ RouteIdle
    /\ OcrIdle

NextEdit ==
    \/ (GetSlidePreview /\ UNCHANGED <<routerVars, normVars, walkVars, overlayVars, replaceVars, colourVars, batchVars, routeVars, ocrVars>>)
    \/ (UpdateDocumentContent /\ UNCHANGED <<routerVars, normVars, walkVars, overlayVars, replaceVars, colourVars, batchVars, routeVars, ocrVars>>)

SpecEdit == InitEdit /\ [][NextEdit]_vars

\* the new text is a translation or the text the frame already has
InitReplace ==
    /\ text_frame \in TextFrames
    /\ new_text \in {<<"T">>, <<"a">>}
    /\ frameBefore = text_frame
    /\ rPc = "call"
    /\ RouterIdle
    /\ NormIdle
    /\ WalkIdle
    /\ OverlayIdle
    /\ EditIdle
    /\ ColourIdle
    /\ BatchIdle
    /\ RouteIdle
    /\ OcrIdle

NextReplace ==
    ReplaceText /\ UNCHANGED <<routerVars, normVars, walkVars, overlayVars, editVars, colourVars, batchVars, routeVars, ocrVars>>

SpecReplace == InitReplace /\ [][NextReplace]_vars

InitColour ==
    /\ pixels \in Regions
    /\ sampled = NoColours
    /\ cPc = "call"
    /\ RouterIdle
    /\ NormIdle
    /\ WalkIdle
    /\ OverlayIdle
    /\ EditIdle
    /\ ReplaceIdle
    /\ BatchIdle
    /\ RouteIdle
    /\ OcrIdle

NextColour ==
    SampleTextColors
    /\ UNCHANGED <<routerVars, normVars, walkVars, overlayVars, editVars, replaceVars, batchVars, routeVars, ocrVars>>

SpecColour == InitColour /\ [][NextColour]_vars

-----------------------------------------------------------------------------
InitBatch ==
    /\ texts \in UNION {[1..n -> Texts] : n \in 0..MaxBatch}
    /\ batchTarget \in TargetLanguages
    /\ batchSource \in SourceLanguages
    /\ posts = 0
    /\ azure_results = <<>>
    /\ translations = <<>>
    /\ batchPc = "call"
    /\ RouterIdle
    /\ NormIdle
    /\ WalkIdle
    /\ OverlayIdle
    /\ EditIdle
    /\ ReplaceIdle
    /\ ColourIdle
    /\ RouteIdle
    /\ OcrIdle

NextBatch ==
    \/ AzureBatchTranslate
       /\ UNCHANGED <<routerVars, normVars, walkVars, overlayVars, editVars, replaceVars, colourVars, routeVars, ocrVars>>
    \/ BatchTranslateReturn
       /\ UNCHANGED <<routerVars, normVars, walkVars, overlayVars, editVars, replaceVars, colourVars, routeVars, ocrVars>>

SpecBatch == InitBatch /\ [][NextBatch]_vars

NextRoute ==
    \/ (NextRouter /\ UNCHANGED routeVars)
    \/ (TranslateRoute
        /\ UNCHANGED <<routerVars, normVars, walkVars, overlayVars, editVars, replaceVars, colourVars, batchVars, ocrVars>>)

SpecRoute == InitRouter /\ [][NextRoute]_vars

InitOcr ==
    /\ ocrAttempt = 0
    /\ polls = 0
    /\ sleeps = 0
    /\ ocrLines = <<>>
    /\ ocrBlocks = <<>>
    /\ ocrExit = "none"
    /\ ocrPc = "call"
    /\ RouterIdle
    /\ NormIdle
    /\ WalkIdle
    /\ OverlayIdle
    /\ EditIdle
    /\ ReplaceIdle
    /\ ColourIdle
    /\ BatchIdle
    /\ RouteIdle

NextOcr ==
    \/ (SubmitImage
        /\ UNCHANGED <<routerVars, normVars, walkVars, overlayVars, editVars, replaceVars, colourVars, batchVars, routeVars>>)
    \/ (PollResult
        /\ UNCHANGED <<routerVars, normVars, walkVars, overlayVars, editVars, replaceVars, colourVars, batchVars, routeVars>>)
    \/ (PollingTimedOut
        /\ UNCHANGED <<routerVars, normVars, walkVars, overlayVars, editVars, replaceVars, colourVars, batchVars, routeVars>>)

\* every request of the function carries a timeout (lines 85 and 106) and
\* the sleep is one second, so a step that can be taken is taken
SpecOcr == InitOcr /\ [][NextOcr]_vars /\ WF_vars(NextOcr)

\* the editor with a cache that earlier requests have filled: previews of
\* the slides 0..9 of another document "c", before and after it was saved
\* again, cache_limit - 1 or cache_limit of them
InitCache ==
    /\ \E d \in EditDocuments : \E present \in BOOLEAN :
          files = [f \in EditFilenames |->
                      [exists |-> f # <<"a","_","b">> \/ present,
                       doc |-> IF f = <<"a">> THEN d ELSE LabelDoc(<< <<>> >>),
                       mtime |-> 0, version |-> 0]]
    /\ \E n \in {cache_limit - 1, cache_limit} :
          _slide_image_cache =
              [k \in 1..n |->
                  [key |-> CacheKey(<<"c">>, (k - 1) % 10, (k - 1) \div 10),
                   file |-> <<"c">>, version |-> (k - 1) \div 10,
                   slide |-> (k - 1) % 10, mtime |-> (k - 1) \div 10]]
    /\ response = NoResponse
    /\ lastEdit = NoEdit
    /\ requests = 0
    /\ RouterIdle
    /\ NormIdle
    /\ WalkIdle
    /\ OverlayIdle
    /\ ReplaceIdle
    /\ ColourIdle
    /\ BatchIdle
    /\ RouteIdle
    /\ OcrIdle

SpecCache == InitCache /\ [][NextEdit]_vars

-----------------------------------------------------------------------------
(* Properties of translate_text *)

LogIdx == 1..Len(callLog)
AzureEvents == {i \in LogIdx : callLog[i].ev = "azure"}
LlmEvents == {i \in LogIdx : callLog[i].ev = "llm"}
SleepEvents == {i \in LogIdx : callLog[i].ev = "sleep"}
CallEvents == AzureEvents \cup LlmEvents

\* the language the skip rule looks at normalizes to the target's code
LangMatches(lang) ==
    /\ lang # None /\ lang # <<>>
    /\ _normalize_language_code(lang) = _normalize_language_code(target_language)

NonBlank(t) == \E i \in 1..Len(t) : t[i] # " "

\* the standard call of the last attempt returned (it did not raise)
LastAzureReturned ==
    /\ AzureEvents # {}
    /\ \E i \in AzureEvents : callLog[i].attempt = attempt /\ callLog[i].ok

\* the text the standard call of the current attempt produced ('' for {})
AzureTextOrEmpty == IF azure_result.has THEN azure_result.translated_text ELSE <<>>

\* C1: skip rule. When the language detected by the standard backend (the
\* declared source language when the backend reports none) normalizes to the
\* target's code, translate returns success, method skipped and the input
\* text unchanged; and the enhancement backend is only ever called in an
\* attempt whose detected language does not match the target.
C1_SkipRule ==
    /\ (pc = "done" /\ NonBlank(text) /\ LastAzureReturned
          /\ LangMatches(IF azure_result.has THEN azure_result.detected_language
                         ELSE source_language))
         => (/\ result.returned /\ result.success
             /\ result.method = "skipped" /\ result.skipped
             /\ result.translation = text
             /\ \A i \in LlmEvents : callLog[i].attempt # attempt)
    /\ \A i \in LlmEvents :
          \E j \in AzureEvents :
              /\ callLog[j].attempt = callLog[i].attempt
              /\ callLog[j].ok
              /\ ~LangMatches(callLog[j].lang)

C1_Witness ==
    /\ pc = "done" /\ result.method = "skipped"
    /\ azure_result.has
    /\ azure_result.detected_language = <<"f","r","-","C","A">>
    /\ target_language = <<"F","R">>
    /\ use_llm_enhancement
    /\ attempt = 1

\* C2: an empty or whitespace-only text is answered with success=false and
\* no backend call, no sleep and no retry.
C2_EmptyNoBackend ==
    ~NonBlank(text) =>
        /\ callLog = <<>>
        /\ attempt = 0
        /\ pc \in {"call", "done"}
        /\ pc = "done" => (result.returned /\ ~result.success)

C2_Witness ==
    /\ pc = "done" /\ text = <<" ", " ">> /\ result.returned /\ ~result.success
    /\ callLog = <<>>

\* C3 as stated: every success=false result carries the input text as its
\* translation, never an empty one.
C3_FailurePassthrough ==
    (pc = "done" /\ result.returned /\ ~result.success)
        => (result.translation = text /\ result.translation # <<>>)

\* C3 amended: a success=false result after retry exhaustion (method failed)
\* carries the non-empty input text; the input-validation short-circuit
\* carries an empty translation and no method.
C3_FailurePassthroughAmended ==
    (pc = "done" /\ result.returned /\ ~result.success)
        => \/ (/\ result.method = "failed"
               /\ NonBlank(text)
               /\ result.translation = text
               /\ result.translation # <<>>)
           \/ (/\ result.method = "none"
               /\ ~NonBlank(text)
               /\ result.translation = <<>>
               /\ callLog = <<>>)

C3_Witness ==
    /\ pc = "done" /\ result.method = "failed" /\ result.translation = <<" ", "x">>

\* the attempts in which some call raised
RaisedAttempts == {callLog[i].attempt : i \in {j \in CallEvents : ~callLog[j].ok}}

SleepSeq == [k \in 1..Cardinality(SleepEvents) |->
                LET i == CHOOSE i \in SleepEvents :
                            Cardinality({j \in SleepEvents : j <= i}) = k
                IN  callLog[i].n]

\* C4: no exception leaves translate_text. When each of the 3 attempts
\* raises, the result is success=false, method failed with the input text,
\* after exactly 3 attempts; the sleeps are 1 then 2 (base delay x 2^attempt),
\* each directly between a raising call and the next attempt's standard call.
C4_RetryExhaustion ==
    /\ \A i \in CallEvents :
          ~callLog[i].ok =>
             /\ i < Len(callLog) => callLog[i+1].ev = "sleep"
             /\ i = Len(callLog) =>
                  \/ pc = "except"
                  \/ (pc = "done" /\ result.returned /\ result.method = "failed")
    /\ pc \in {"call", "azure", "check", "llm", "except", "done"}
    /\ pc = "done" => result.returned
    /\ attempt < max_retries
    /\ Cardinality(AzureEvents) <= max_retries
    /\ \A i \in SleepEvents :
          /\ i > 1 /\ callLog[i-1].ev # "sleep" /\ ~callLog[i-1].ok
          /\ callLog[i-1].attempt = callLog[i].attempt
          /\ callLog[i].n = retry_delay * (2 ^ callLog[i].attempt)
          /\ i < Len(callLog) =>
                (callLog[i+1].ev = "azure"
                   /\ callLog[i+1].attempt = callLog[i].attempt + 1)
          /\ (i = Len(callLog)) => pc = "azure"
    /\ (pc = "done" /\ RaisedAttempts = 0..(max_retries - 1))
         => (/\ result.returned /\ ~result.success
             /\ result.method = "failed"
             /\ result.translation = text
             /\ Cardinality(AzureEvents) = max_retries
             /\ SleepSeq = <<1, 2>>
             /\ callLog[Len(callLog)].ev # "sleep")

C4_Witness ==
    /\ pc = "done" /\ result.method = "failed"
    /\ \E i \in LlmEvents : ~callLog[i].ok
    /\ \E i \in AzureEvents : ~callLog[i].ok
    /\ SleepSeq = <<1, 2>>

\* the 0-based attempt of the first standard call that returned
FirstAzureOk(k) ==
    /\ \E i \in AzureEvents : callLog[i].attempt = k /\ callLog[i].ok
    /\ \A i \in AzureEvents : callLog[i].attempt < k => ~callLog[i].ok

\* what translate returns in an attempt whose standard call returned
ResultOfAttempt ==
    /\ result.returned /\ result.success
    /\ result.method \in {"skipped", "azure", "llm"}
    /\ result.method = "skipped" => result.translation = text
    /\ result.method = "azure" => result.translation = AzureTextOrEmpty
    /\ result.method = "llm" =>
          \E i \in LlmEvents : /\ callLog[i].attempt = attempt
                               /\ callLog[i].out = result.translation

C6_Escalation ==
    /\ \A i \in LlmEvents :
          /\ \E j \in AzureEvents :
                /\ j = i - 1 /\ callLog[j].attempt = callLog[i].attempt
                /\ callLog[j].ok /\ ~LangMatches(callLog[j].lang)
          /\ (use_llm_enhancement \/ force_llm)
          /\ openrouter_service
    /\ use_llm_enhancement => openrouter_service
    /\ \A i \in LlmEvents :
          (callLog[i].kind = "choices")
             => (/\ pc = "done" /\ i = Len(callLog)
                 /\ result.returned /\ result.success
                 /\ result.method = "llm"
                 /\ result.translation = callLog[i].out
                 /\ result.azure_translation = callLog[i-1].out)

C6_Witness ==
    /\ pc = "done" /\ result.method = "llm" /\ result.translation = <<"r">>
    /\ result.azure_translation = <<"q">>
    /\ force_llm /\ ~use_llm_enhancement
    /\ attempt = 1
    /\ \E i \in AzureEvents : callLog[i].attempt = 0 /\ callLog[i].out = <<"p">>

\* C7 as stated: whenever the enhancement call fails (success=false or an
\* exception), translate returns success, method azure with the standard
\* translation.
C7_SilentFallback ==
    (pc = "done" /\ \E i \in LlmEvents : callLog[i].kind # "choices")
        => (/\ result.returned /\ result.success
            /\ result.method = "azure"
            /\ result.translation = AzureTextOrEmpty)

\* C7 amended: whenever the enhancement call reports success=false (no
\* choices, or a request error caught inside the enhancement service),
\* translate returns at once success, method azure with that attempt's
\* standard translation; an exception escaping the service is retried.
C7_SilentFallbackAmended ==
    \A i \in LlmEvents :
        /\ (callLog[i].kind \in {"nochoices", "request_exception"})
             => (/\ pc = "done" /\ i = Len(callLog)
                 /\ callLog[i].ok
                 /\ result.returned /\ result.success
                 /\ result.method = "azure"
                 /\ result.translation = AzureTextOrEmpty
                 /\ callLog[i-1].ev = "azure"
                 /\ callLog[i-1].attempt = callLog[i].attempt
                 /\ callLog[i-1].out # None => result.translation = callLog[i-1].out)
        /\ (callLog[i].kind = "malformed")
             => (/\ ~callLog[i].ok
                 /\ i = Len(callLog) =>
                      \/ pc = "except"
                      \/ (/\ pc = "done" /\ result.method = "failed"
                          /\ callLog[i].attempt = max_retries - 1))

C7_Witness ==
    /\ pc = "done" /\ result.method = "azure" /\ result.translation = <<"p">>
    /\ callLog[Len(callLog)].ev = "llm"
    /\ callLog[Len(callLog)].kind = "request_exception"

-----------------------------------------------------------------------------
(* Properties of _normalize_language_code *)

\* C8: normalization is idempotent and case-insensitive on every input, and
\* maps zh-Hans and ZH_HANS to zh and the legacy code in to id.
C8_NormalizeIdempotent ==
    normPc = "applied" =>
        /\ normTwice = normOnce
        /\ normUpper = normOnce
        /\ lang_code = <<"z","h","-","H","a","n","s">> => normOnce = <<"z","h">>
        /\ lang_code = <<"Z","H","_","H","A","N","S">> => normOnce = <<"z","h">>
        /\ lang_code = <<"i","n">> => normOnce = <<"i","d">>

-----------------------------------------------------------------------------
(* Properties of the shape-tree walk *)

\* C9: within one walk no two distinct text-frame shapes get the same ledger
\* identifier, whether top-level, in a group or in a group inside a group.
C9_UniqueFrameIds ==
    \A i, j \in 1..Len(idLog) :
        idLog[i].id = idLog[j].id => idLog[i].path = idLog[j].path

\* p comes before q in the order the walk visits shapes (document order)
RECURSIVE PathBefore(_, _)
PathBefore(p, q) ==
    /\ q # <<>>
    /\ \/ p = <<>>
       \/ Head(p) < Head(q)
       \/ (Head(p) = Head(q) /\ PathBefore(Tail(p), Tail(q)))

\* the picture shapes of the input document
InputPictures == {sh \in DocShapes(docIn) : sh.kind = "pic"}

SameImage(p, q) ==
    /\ p.path # q.path /\ p.path[1] = q.path[1]
    /\ p.blob = q.blob /\ p.blob # "linked"

\* the pictures whose slide has been walked to the end
WalkedPictures ==
    {p \in InputPictures : p.path[1] < slide_idx}

\* C10: on one slide, of the pictures with byte-identical content at most one
\* reaches translate_image, namely the first the walk meets; every later one
\* stays in the document as it was; the set of seen hashes holds only hashes
\* of pictures of the current slide, so the first image of every slide is
\* translated again.
C10_ImageDedup ==
    /\ \A i, j \in 1..Len(overlayLog) :
          (/\ overlayLog[i].path[1] = overlayLog[j].path[1]
           /\ overlayLog[i].blob = overlayLog[j].blob) => i = j
    /\ \A p \in InputPictures :
          (\E q \in InputPictures : SameImage(q, p) /\ PathBefore(q.path, p.path))
             => /\ \A i \in 1..Len(overlayLog) : overlayLog[i].path # p.path
                /\ p \in DocShapes(doc)
    /\ wPc = "shapes" =>
          /\ \A h \in processed_image_hashes :
                \E p \in InputPictures : p.blob = h /\ p.path[1] = slide_idx
          /\ (Len(stack) = 1 /\ TopFrame.idx = 0) => processed_image_hashes = {}
    /\ \A p \in WalkedPictures :
          (/\ image_translator
           /\ p.blob = "big"
           /\ ~\E q \in InputPictures : SameImage(q, p) /\ PathBefore(q.path, p.path))
             => \E i \in 1..Len(overlayLog) : overlayLog[i].path = p.path

\* two slides each holding the same image twice, once inside a group
C10_Witness ==
    /\ wPc = "done"
    /\ Len(overlayLog) = 2
    /\ overlayLog[1].path[1] = 0 /\ overlayLog[2].path[1] = 1
    /\ overlayLog[1].blob = overlayLog[2].blob
    /\ \E p \in InputPictures :
          /\ Len(p.path) = 3 /\ p.blob = "big"
          /\ \A i \in 1..Len(overlayLog) : overlayLog[i].path # p.path
          /\ p \in DocShapes(doc)
    /\ stats.images_translated = 1

-----------------------------------------------------------------------------
(* Properties of translate_image *)

\* the filter as the overlay contract words it
SurvivesFilter(res, original_text) ==
    /\ res.success = TRUE
    /\ res.skipped = FALSE
    /\ \A frag \in error_indicators : ~HasSubstring(res.translation, frag)
    /\ Len(res.translation) <= 5 * Len(original_text)

AnyRefusal ==
    \E i \in 1..Len(ovResults) : \E frag \in error_indicators :
        ovResults[i].success /\ HasSubstring(ovResults[i].translation, frag)

\* C11: overlay draws a block only if the Router result for it is a
\* success, not skipped, free of refusal fragments and at most five times as
\* long as the source text; when OCR finds no block or no block passes,
\* translate_image returns nothing, and whenever it returns nothing the
\* caller leaves the picture where and as it was and does not count it.
C11_OverlayFilter ==
    /\ \A j \in 1..Len(ovReturn.drawn) :
          LET b == ovReturn.drawn[j]
              i == b.bbox[1]
          IN  /\ i \in 1..Len(ovResults)
              /\ b.bbox = text_blocks[i].bbox
              /\ b.original = text_blocks[i].text
              /\ b.translated = ovResults[i].translation
              /\ SurvivesFilter(ovResults[i], text_blocks[i].text)
    /\ (/\ ovPc \in {"returned", "done"}
        /\ \A i \in 1..Len(ovResults) :
              ~SurvivesFilter(ovResults[i], text_blocks[i].text))
       => ovReturn = NoBytes
    /\ (ovPc = "done" /\ ~ovReturn.bytes)
       => (ovDoc \in OverlaySlides /\ images_translated = 0)
    /\ (ovPc = "done" /\ ovReturn.bytes)
       => (ovDoc \notin OverlaySlides /\ images_translated = 1)

\* two blocks were translated, one into a refusal, none passed the filter,
\* and the caller has returned with the picture untouched
C11_Witness ==
    /\ ovPc = "done"
    /\ Len(text_blocks) = 2 /\ Len(ovResults) = 2
    /\ AnyRefusal
    /\ \A i \in 1..2 : ~SurvivesFilter(ovResults[i], text_blocks[i].text)
    /\ ovReturn = NoBytes
    /\ ovDoc \in OverlaySlides
    /\ ovShape.blob = "big"
    /\ images_translated = 0

-----------------------------------------------------------------------------
(* Properties of the walk: ledger and failures *)

TraceIdx == 1..Len(translateLog)
LedgerWrites == {k \in TraceIdx : translateLog[k].ev = "ledger"}
FrameCalls == {k \in TraceIdx : translateLog[k].ev = "translate" /\ translateLog[k].cell = 0}
CellCalls == {k \in TraceIdx : translateLog[k].ev = "translate" /\ translateLog[k].cell > 0}

\* the trimmed text the frame at path had in the input document
SourceText(path) == Strip(Lookup(docIn, path).text)

InputFrames == {sh \in DocShapes(docIn) : sh.has_text_frame}

WalkOver == wPc \in {"done", "failed"} \/ (wPc = "slide" /\ slide_idx = Len(doc))

\* every translate call for a frame comes right after the ledger write for
\* the same frame, which stores the trimmed input text under the frame's id
\* (slide and shape index for a top-level shape)
C12_WrittenBeforeCall ==
    \A k \in FrameCalls :
        /\ k - 1 \in LedgerWrites
        /\ translateLog[k - 1].path = translateLog[k].path
        /\ translateLog[k - 1].id = translateLog[k].id
        /\ translateLog[k - 1].text = SourceText(translateLog[k].path)
        /\ translateLog[k].text = SourceText(translateLog[k].path)
        /\ Len(translateLog[k].path) = 2 => translateLog[k].id = translateLog[k].path

\* a blank frame gets no ledger write and no translate call; once the walk
\* is over every non-blank frame has had both
C12_OnlyNonBlank ==
    /\ \A sh \in InputFrames :
          SourceText(sh.path) = <<>>
          => \A k \in LedgerWrites \cup FrameCalls : translateLog[k].path # sh.path
    /\ (WalkOver /\ stats.slides_processed = Len(doc))
       => \A sh \in InputFrames :
             SourceText(sh.path) # <<>>
             => \E k \in FrameCalls : translateLog[k].path = sh.path

\* the entry of a top-level frame stays in the ledger
C12_TopLevelEntryRemains ==
    \A k \in LedgerWrites :
        Len(translateLog[k].path) = 2
        => [id |-> translateLog[k].id, text |-> SourceText(translateLog[k].path)]
              \in original_texts

\* C12: every non-blank text frame handed to the text-frame handler has its
\* id mapped to its trimmed original text in the ledger, the entry being
\* written before the translate call and staying there whatever the call
\* returns; blank frames get neither an entry nor a call.
C12_LedgerEntries ==
    /\ C12_WrittenBeforeCall
    /\ C12_OnlyNonBlank
    /\ \A k \in LedgerWrites :
          [id |-> translateLog[k].id, text |-> SourceText(translateLog[k].path)]
              \in original_texts

-----------------------------------------------------------------------------
(* Properties of the editor routes *)

Edited == lastEdit # NoEdit

\* the document the last update request left in the file
AfterEdit == files[lastEdit.file].doc

TextAt(d, path) == Lookup(d, path).text

\* edits that name a top-level text frame are applied
C13_TopLevelApplied ==
    Edited => \A e \in WalkerIds(lastEdit.before) :
                 (Len(e.id) = 2 /\ InMap(lastEdit.edits, e.id))
                 => TextAt(AfterEdit, e.path) = MapGet(lastEdit.edits, e.id)

\* text frames whose id is not in the edit set keep their text
C13_OthersUnchanged ==
    Edited => \A e \in WalkerIds(lastEdit.before) :
                 ~InMap(lastEdit.edits, e.id)
                 => TextAt(AfterEdit, e.path) = TextAt(lastEdit.before, e.path)

\* C13: after update_document_content every text frame whose walker id,
\* top-level or group-nested, is named by an edit has the edit's text, and
\* every other text frame has the text it had before.
C13_EditsApplied ==
    Edited => \A e \in WalkerIds(lastEdit.before) :
                 TextAt(AfterEdit, e.path) =
                     IF InMap(lastEdit.edits, e.id)
                     THEN MapGet(lastEdit.edits, e.id)
                     ELSE TextAt(lastEdit.before, e.path)

\* the last request was an update that succeeded
AfterUpdate == Edited /\ response.op = "update" /\ response.status = 200

CacheIdx == 1..Len(_slide_image_cache)

\* C14 as stated: after a successful update for filename F the cache has no
\* entry whose key starts with F.
C14_NoKeyPrefixedByName ==
    AfterUpdate => \A k \in CacheKeys : ~StartsWith(k, lastEdit.file)

\* C14 amended: after a successful update for filename F the cache has no
\* entry whose key starts with F followed by "_", hence no entry of F; the
\* cache never holds an image made before the last save of its file, and a
\* preview answered from the cache is never older than the file.
C14_NoKeyOfFile ==
    /\ AfterUpdate
       => /\ \A k \in CacheKeys : ~StartsWith(k, lastEdit.file \o <<"_">>)
          /\ \A i \in CacheIdx : _slide_image_cache[i].file # lastEdit.file
    /\ \A i \in CacheIdx :
          _slide_image_cache[i].version = files[_slide_image_cache[i].file].version
    /\ (response.op = "preview" /\ response.status = 200)
       => response.version = files[response.file].version

\* a preview of F was cached, then F was updated and saved within the same
\* mtime tick, and the cache no longer has the entry
C14_Witness ==
    /\ AfterUpdate
    /\ \E k \in lastEdit.cacheBefore : StartsWith(k, lastEdit.file \o <<"_">>)
    /\ files[lastEdit.file].mtime = 0
    /\ \A k \in CacheKeys : ~StartsWith(k, lastEdit.file \o <<"_">>)

Calls == FrameCalls \cup CellCalls

\* the text a translate call was made for, as it is in document d
UnitText(d, ev) ==
    IF ev.cell = 0 THEN Lookup(d, ev.path).text
    ELSE Lookup(d, ev.path).cells[ev.cell]

InputTables == {sh \in DocShapes(docIn) : sh.has_table}

\* the walk has gone through every slide
WalkComplete == (wPc = "slide" /\ slide_idx = Len(doc)) \/ wPc = "done"

\* C15: when the translate call for a text frame or a table cell fails or
\* raises, that text is left as it was, the walk goes on over every later
\* shape and slide (it only ever fails on an unreadable input or in the
\* save step), and a walk whose save succeeds has written the document and
\* the ledger and returns its stats with success = true.
C15_FailureIsolation ==
    /\ \A k \in Calls :
          ~translateLog[k].res.success
          => UnitText(doc, translateLog[k]) = UnitText(docIn, translateLog[k])
    /\ wPc = "failed"
       => (stack = <<>> /\ (slide_idx = Len(doc) \/ translateLog = <<>>))
    /\ WalkComplete
       => /\ stats.slides_processed = Len(doc)
          /\ stats.text_frames_translated = Cardinality(InputFrames)
          /\ stats.tables_translated = Cardinality(InputTables)
          /\ \A sh \in InputFrames :
                SourceText(sh.path) # <<>>
                => \E k \in FrameCalls : translateLog[k].path = sh.path
          /\ \A sh \in InputTables :
                \E k \in CellCalls : translateLog[k].path = sh.path
    /\ wPc = "done"
       => /\ output = [document |-> <<File(doc)>>, ledger |-> <<File(original_texts)>>]
          /\ ProcessReturn.success
          /\ ProcessReturn.stats = <<stats>>

\* a call failed, a call for a shape on a later slide was made after it and
\* its translation was put in, and the walk returned its stats
C15_Witness ==
    /\ wPc = "done"
    /\ ProcessReturn.success
    /\ \E k \in Calls : \E j \in Calls :
          /\ k < j
          /\ ~translateLog[k].res.success /\ translateLog[k].res # Raised
          /\ UnitText(doc, translateLog[k]) = UnitText(docIn, translateLog[k])
          /\ translateLog[j].path[1] > translateLog[k].path[1]
          /\ translateLog[j].res.success
          /\ UnitText(doc, translateLog[j]) = Translated
    /\ stats.slides_processed = 2
    /\ output.document = <<File(doc)>>

\* the document file at the output path was written by the current call
DocumentWritten ==
    \E i \in 1..Len(output.document) : output.document[i].walk = walkNo

LedgerWritten ==
    \E i \in 1..Len(output.ledger) : output.ledger[i].walk = walkNo

\* a failed call hands no stats to its caller
C16_FailureSurfaced ==
    wPc = "failed" => (ProcessReturn.raised /\ ProcessReturn.stats = <<>>)

\* C16: when process_pptx ends in a whole-document failure, the exception
\* reaches the caller without stats and the call has written no document
\* file at the output path.
C16_NoOutputOnFailure ==
    wPc = "failed"
    => (ProcessReturn.raised /\ ProcessReturn.stats = <<>> /\ ~DocumentWritten)

RECURSIVE RecordedEntries(_)
\* the ledger that the writes logged in the current call add up to
RecordedEntries(k) ==
    IF k = 0 THEN {}
    ELSE Put(RecordedEntries(k - 1), idLog[k].id, SourceText(idLog[k].path))

CallEnded == wPc \in {"done", "failed"}

\* the ledger in memory holds exactly the entries of the latest call
C17_MemoryLedgerIsLatest ==
    CallEnded => original_texts = RecordedEntries(Len(idLog))

\* after a call that returned, the ledger file holds exactly its entries
C17_ReturnedCallLedger ==
    wPc = "done" => output.ledger = <<File(RecordedEntries(Len(idLog)))>>

\* C17: after any sequence of calls of process_pptx on one instance, the
\* ledger in memory and the ledger file next to the document written by the
\* latest call hold exactly the entries recorded during that call.
C17_LedgerOfLatestWalk ==
    CallEnded
    => /\ original_texts = RecordedEntries(Len(idLog))
       /\ (DocumentWritten /\ output.ledger # <<>>)
          => output.ledger[1].content = RecordedEntries(Len(idLog))

-----------------------------------------------------------------------------
(* Properties of _replace_text_preserve_format *)

HadRuns == frameBefore # <<>> /\ frameBefore[1] # <<>>

\* size and name that Python takes as true are carried over, bold and
\* italic whenever they were set
C18_TruthyAttributesKept ==
    (rPc = "done" /\ HadRuns)
    => LET old == frameBefore[1][1]
       IN  /\ Len(text_frame) = 1 /\ Len(text_frame[1]) = 1
           /\ text_frame[1][1].text = new_text
           /\ TruthyInt(old.size) => text_frame[1][1].size = old.size
           /\ Truthy(old.name) => text_frame[1][1].name = old.name
           /\ old.bold # <<>> => text_frame[1][1].bold = old.bold
           /\ old.italic # <<>> => text_frame[1][1].italic = old.italic

\* C18: replacing the text of a frame whose first paragraph has a run leaves
\* one paragraph with one run that carries the new text and the size, face
\* name, bold and italic of the original first run wherever these were not
\* None; a frame without runs just gets the new text as plain text.
C18_FormatPreserved ==
    rPc = "done"
    => IF HadRuns
       THEN LET old == frameBefore[1][1]
            IN  /\ Len(text_frame) = 1 /\ Len(text_frame[1]) = 1
                /\ text_frame[1][1].text = new_text
                /\ old.size # <<>> => text_frame[1][1].size = old.size
                /\ old.name # None => text_frame[1][1].name = old.name
                /\ old.bold # <<>> => text_frame[1][1].bold = old.bold
                /\ old.italic # <<>> => text_frame[1][1].italic = old.italic
       ELSE text_frame = SetText(new_text)

-----------------------------------------------------------------------------
(* Properties of _sample_text_colors *)

\* C19: the text colour returned by the sampler has a contrast ratio of at
\* least 1.5 against the returned background colour, which is the colour
\* most pixels of the region have.
C19_MinimumContrast ==
    cPc = "done"
    => /\ sampled.bg_color = MostCommon(pixels)
       /\ ~BelowMinimum(_calculate_contrast(sampled.text_color, sampled.bg_color))

\* C20: for a background whose contrast ratio against pure black is below
\* 1.5 the sampler returns pure white as text colour, not black.
C20_WhiteOnNearBlack ==
    (cPc = "done" /\ BelowMinimum(_calculate_contrast(sampled.bg_color, Black)))
    => (sampled.text_color = White /\ sampled.text_color # Black)

\* a dark blue region with one black pixel was sampled: its contrast against
\* black is below 1.5 and the text colour is white
C20_Witness ==
    /\ cPc = "done"
    /\ Len(pixels) = 2 /\ pixels[2] = Black
    /\ sampled.bg_color = <<0, 0, 85>>
    /\ BelowMinimum(_calculate_contrast(sampled.bg_color, Black))
    /\ sampled.text_color = White

-----------------------------------------------------------------------------
(* Properties of batch_translate *)

\* C21: batch_translate returns one result per input text, in input order:
\* result i carries index i, method "azure" and success, and holds what the
\* service answered for texts[i], also when the detected language equals the
\* target (no skip rule); the service is asked once, and when that request
\* raises nothing is returned.
C21_BatchResults ==
    /\ posts <= 1
    /\ batchPc = "raised" => (posts = 1 /\ translations = <<>>)
    /\ batchPc = "done" =>
          /\ posts = 1
          /\ Len(translations) = Len(texts)
          /\ \A i \in 1..Len(texts) :
                /\ translations[i].index = i - 1
                /\ translations[i].method = "azure"
                /\ translations[i].success
                /\ translations[i].target_language = batchTarget
                /\ azure_results[i].has
                   => /\ translations[i].translation = <<"p">> \o texts[i]
                      /\ translations[i].source_language = azure_results[i].detected_language

\* two different texts were translated, the first detected in the target
\* language, the second answered without translations
C21_Witness ==
    /\ batchPc = "done"
    /\ Len(texts) = 2 /\ texts[1] # texts[2]
    /\ ShouldSkip(translations[1].source_language, batchTarget)
    /\ translations[1].translation = <<"p">> \o texts[1]
    /\ ~azure_results[2].has
    /\ translations[2].index = 1

-----------------------------------------------------------------------------
(* Properties of the /translate route *)

\* C22: a translate request whose text is empty is answered with status 400,
\* never with a success and never with status 500.
C22_EmptyTextRejected ==
    (httpStatus # 0 /\ text = <<>>) => httpStatus = 400

\* every request with a text that is not blank and a result that carries
\* the required fields is answered with status 200
C22_ValidAnswered ==
    (httpStatus # 0 /\ ~IsEmptyText(text) /\ result.translation # None)
    => httpStatus = 200

-----------------------------------------------------------------------------
(* Properties of the walk: dispatch *)

Dispatches == {k \in TraceIdx : translateLog[k].ev = "dispatch"}

\* no shape is dispatched twice, only shapes of the input document are
\* dispatched (a picture put in by a replacement is not one of them), and
\* once a slide has been walked each of its shapes, nested ones included,
\* has been dispatched
C23_DispatchedOnce ==
    /\ \A j, k \in Dispatches :
          translateLog[j].path = translateLog[k].path => j = k
    /\ \A k \in Dispatches :
          \E sh \in DocShapes(docIn) : sh.path = translateLog[k].path
    /\ \A sh \in DocShapes(docIn) :
          (sh.path[1] < slide_idx)
             => \E k \in Dispatches : translateLog[k].path = sh.path

\* a shape is only ever taken out of a collection the loop runs over a copy of
C23_NoLiveMutation ==
    \A k \in Dispatches : translateLog[k].replaced => ~translateLog[k].live

\* C23: during a walk every shape that is on a slide when the slide's walk
\* starts, at any depth, is dispatched exactly once, a picture inserted by
\* an image replacement is never dispatched, and no loop of the walker runs
\* over a collection that a replacement changes.
C23_SnapshotWalk == C23_DispatchedOnce /\ C23_NoLiveMutation

\* a picture inside a group was replaced and the walk went on to the end
C23_NestedReplaced ==
    /\ WalkComplete
    /\ \E k \in Dispatches :
          translateLog[k].replaced /\ Len(translateLog[k].path) > 2

-----------------------------------------------------------------------------
(* Properties of the walk against the editor routes *)

\* the text frames the ledger has a key for, with the key
LedgerKeys == {idLog[k] : k \in 1..Len(idLog)}

\* C24: after a walk every ledger key written for a text frame is the id
\* that document-content and update-content derive for that text frame in
\* the saved document, also when a picture earlier on the slide was replaced.
C24_LedgerKeysAreEditorIds ==
    (wPc = "done" /\ output.document # <<>>)
    => \A e \in LedgerKeys :
          \E c \in ContentIds(output.document[1].content) :
              c.path = e.path /\ c.id = e.id

\* on a slide without groups on which no picture was replaced the keys of
\* the ledger are the ids of the editor
C24_UnchangedSlides ==
    (wPc = "done" /\ output.document # <<>>)
    => \A e \in LedgerKeys :
          (/\ \A sh \in DocShapes(docIn) : sh.path[1] = e.path[1] => sh.kind # "group"
           /\ \A k \in Dispatches :
                 translateLog[k].path[1] = e.path[1] => ~translateLog[k].replaced)
          => \E c \in ContentIds(output.document[1].content) :
                c.path = e.path /\ c.id = e.id

\* the handler the dispatch order group, picture (with image translation),
\* text frame, table picks for a shape: the first that matches
FirstMatch(sh) ==
    IF sh.kind = "group" THEN {"group"}
    ELSE IF sh.kind = "pic" /\ image_translator THEN {"image"}
    ELSE IF sh.has_text_frame THEN {"text_frame"}
    ELSE IF sh.has_table THEN {"table"}
    ELSE {}

\* C25: each shape is handled by the first handler that matches in the order
\* group, picture (when image translation is enabled), text frame, table,
\* and by no other: a group is not handled as text, table or image, a
\* picture taken by the image branch is not handled as text frame or table
\* whatever the overlay gave, and a shape with a text frame and a table is
\* handled as a text frame only.
C25_FirstMatchOnly ==
    \A k \in Dispatches :
        translateLog[k].handlers = FirstMatch(Lookup(docIn, translateLog[k].path))

\* the same for the shapes that do not expose both a text frame and a table
C25_FirstMatchOfOthers ==
    \A k \in Dispatches :
        LET sh == Lookup(docIn, translateLog[k].path)
        IN  ~(sh.has_text_frame /\ sh.has_table)
            => translateLog[k].handlers = FirstMatch(sh)

-----------------------------------------------------------------------------
(* Properties of extract_text_from_image *)

\* at most max_attempts polls, one sleep before each; the blocks of the
\* first result reporting succeeded are returned and polling stops; every
\* other exit returns the empty sequence
C26_PollLoop ==
    /\ polls <= max_attempts /\ sleeps = polls
    /\ ocrPc \in {"call", "poll", "done"}
    /\ ocrPc = "poll" => (polls = ocrAttempt /\ ocrExit = "none")
    /\ ocrPc = "done" =>
          /\ ocrExit \in {"unconfigured", "unconvertible", "exception", "nohandle",
                          "failed", "timeout", "succeeded"}
          /\ ocrExit \in {"unconfigured", "unconvertible", "nohandle"} => polls = 0
          /\ ocrExit = "timeout" => polls = max_attempts
          /\ ocrExit = "succeeded"
             => (polls = ocrAttempt + 1 /\ ocrBlocks = _parse_ocr_result(ocrLines))
          /\ ocrExit # "succeeded" => ocrBlocks = <<>>

\* C26: extract_text_from_image always terminates and never raises: it
\* polls at most 10 times with a sleep of one second before each poll,
\* returns the parsed blocks at the first poll reporting succeeded, and the
\* empty sequence on a failed status, after 10 polls without a terminal
\* status, on a missing operation handle and on any exception.
C26_Terminates == []C26_PollLoop /\ <>(ocrPc = "done")

\* the tenth poll reported succeeded with a line that is kept
C26_Witness ==
    /\ ocrPc = "done" /\ ocrExit = "succeeded"
    /\ polls = max_attempts /\ sleeps = max_attempts
    /\ ocrBlocks # <<>>

\* the line numbers that became a text block
KeptLines == {ocrBlocks[k].bbox : k \in 1..Len(ocrBlocks)}

\* the character is in the Han, Hiragana, Katakana or Hangul range
InCjkRange(c) ==
    \/ CodePoint(c) \in 19968..40959
    \/ CodePoint(c) \in 12352..12447
    \/ CodePoint(c) \in 12448..12543
    \/ CodePoint(c) \in 44032..55215

\* C27: of the lines of a result, one whose text is a single CJK character
\* (and that has its box) becomes a text block, one whose text is empty or
\* a single character outside the CJK ranges does not.
C27_SingleCjkKept ==
    ocrExit = "succeeded"
    => \A i \in 1..Len(ocrLines) :
          LET t == Strip(ocrLines[i].text)
          IN  /\ (Len(t) = 1 /\ InCjkRange(t[1]) /\ ocrLines[i].has_box)
                 => i \in KeptLines
              /\ (t = <<>> \/ (Len(t) = 1 /\ ~InCjkRange(t[1])))
                 => i \notin KeptLines

\* what the filter does: a line becomes a block exactly when its trimmed
\* text has two or more characters and it has its box
C27_TwoOrMoreKept ==
    ocrExit = "succeeded"
    => KeptLines = {i \in 1..Len(ocrLines) :
                       Len(Strip(ocrLines[i].text)) >= 2 /\ ocrLines[i].has_box}

-----------------------------------------------------------------------------
(* Properties of the preview cache *)

\* the cache never holds more than cache_limit entries, and a cached image
\* is sent only if it was made for the filename, slide number and
\* modification time of the request
C28_BoundedAndExact ==
    /\ Len(_slide_image_cache) <= cache_limit
    /\ (response.op = "preview" /\ response.status = 200 /\ response.cached)
       => <<response.file, response.slide, response.mtime>> = response.asked

\* a preview request that is not served from the cache appends the entry of
\* the request, and when that makes cache_limit + 1 entries it deletes the
\* one inserted earliest; every other preview request leaves the cache alone
C28_OldestEvicted ==
    /\ (requests' # requests /\ response'.op = "preview"
        /\ ~(response'.status = 200 /\ ~response'.cached))
       => _slide_image_cache' = _slide_image_cache
    /\ (requests' # requests /\ response'.op = "preview"
        /\ response'.status = 200 /\ ~response'.cached)
       =>
       LET old == _slide_image_cache
           new == _slide_image_cache'
       IN  /\ <<new[Len(new)].file, new[Len(new)].slide, new[Len(new)].mtime>>
                 = response'.asked
           /\ new = IF Len(old) = cache_limit
                    THEN Append(Tail(old), new[Len(new)])
                    ELSE Append(old, new[Len(new)])

\* C28: after every preview request the preview cache holds at most 20
\* entries; an insertion that makes it exceed 20 evicts exactly the entry
\* inserted earliest, never the one just inserted; a cached image is served
\* only for a key whose filename, slide number and modification time are
\* those of the request.
C28_PreviewCache == []C28_BoundedAndExact /\ [][C28_OldestEvicted]_vars

\* the cache was full, a preview of a new key was inserted and the oldest
\* entry is gone, and the next request was served the inserted image
C28_Witness ==
    /\ Len(_slide_image_cache) = cache_limit
    /\ _slide_image_cache[1].key = CacheKey(<<"c">>, 1, 0)
    /\ _slide_image_cache[cache_limit].file = <<"a">>
    /\ response.op = "preview" /\ response.cached
    /\ response.asked = <<<<"a">>, _slide_image_cache[cache_limit].slide,
                          _slide_image_cache[cache_limit].mtime>>

-----------------------------------------------------------------------------
(* Properties of the processing stats *)

\* the text frames whose text the walk replaced by a translation: the frame
\* calls whose result was accepted
ReplacedFrames == {k \in FrameCalls : Accepted(translateLog[k].res)}

\* C29: when the walk has gone through every slide, text_frames_translated
\* is the number of text frames whose text was replaced by a translation in
\* that walk: a blank frame and a frame whose translate call did not succeed
\* are not counted; no counter ever decreases during the walk, and
\* slides_processed is the number of slides.
C29_CountsReplacedFrames ==
    WalkComplete
    => /\ stats.text_frames_translated = Cardinality(ReplacedFrames)
       /\ stats.slides_processed = Len(doc)

\* the parts of C29 about the counters as such: each step of the walk leaves
\* every counter as it was or raises it, and after the last slide
\* slides_processed is the number of slides
C29_CountersOnlyIncrease ==
    [][/\ stats'.slides_processed >= stats.slides_processed
       /\ stats'.text_frames_translated >= stats.text_frames_translated
       /\ stats'.tables_translated >= stats.tables_translated
       /\ stats'.images_translated >= stats.images_translated]_vars

C29_SlidesProcessed ==
    WalkComplete => stats.slides_processed = Len(doc)

\* what the code counts instead: every shape that has a text frame and was
\* handed to the text handler
C29_CountsFramesSeen ==
    WalkComplete
    => stats.text_frames_translated =
          Cardinality({k \in Dispatches : "text_frame" \in translateLog[k].handlers})

-----------------------------------------------------------------------------
(* Properties of the drawing loop of translate_image *)

\* the font size the heuristic gives for the j-th drawn block
ComputedSize(j) ==
    LET b == ovReturn.drawn[j]
    IN  _calculate_font_size(b.translated, b.bbox[3], b.bbox[4])

\* the surviving blocks: the OCR blocks, in OCR order, whose Router result
\* passed the filter
RECURSIVE Surviving(_)
Surviving(i) ==
    IF i > Len(ovResults) THEN <<>>
    ELSE (IF SurvivesFilter(ovResults[i], text_blocks[i].text) THEN <<i>> ELSE <<>>)
         \o Surviving(i + 1)

\* every surviving block is drawn, in the order OCR reported the blocks
C30_DrawnInOrder ==
    ovReturn.bytes
    => /\ Len(ovReturn.drawn) = Len(Surviving(1))
       /\ \A j \in 1..Len(ovReturn.drawn) :
             /\ ovReturn.drawn[j].bbox = text_blocks[Surviving(1)[j]].bbox
             /\ ovReturn.drawn[j].translated = ovResults[Surviving(1)[j]].translation

\* C30: where a TrueType font file can be read, every surviving block is
\* drawn, in OCR order, with a font whose size is the value
\* clamp(min(width / len(text) * 1.5, height * 0.8), 10, 50) computed for
\* that block: between 10 and 50 and whatever was drawn before it.
C30_FontSizePerBlock ==
    /\ C30_DrawnInOrder
    /\ \A j \in 1..Len(ovReturn.drawn) :
          /\ ComputedSize(j) \in 10..50
          /\ ovReturn.drawn[j].font.truetype
             => ovReturn.drawn[j].font.size = ComputedSize(j)

\* what the loop does: a block whose computed size is not 20 gets a font of
\* that size, a block whose computed size is 20 gets the font of the block
\* drawn before it (the font loaded at size 20 for the first block); the
\* size is between 10 and 50 all the same
C30_FontCarriedOver ==
    \A j \in 1..Len(ovReturn.drawn) :
        LET f == ovReturn.drawn[j].font
        IN  /\ ComputedSize(j) \in 10..50
            /\ f.truetype => f.size \in 10..50
            /\ ComputedSize(j) # font_size
               => f = LoadFont(f.truetype, ComputedSize(j))
            /\ (ComputedSize(j) = font_size /\ j > 1)
               => f = ovReturn.drawn[j - 1].font
            /\ (ComputedSize(j) = font_size /\ j = 1)
               => f = LoadFont(f.truetype, font_size)

\* two blocks were drawn with a TrueType font, the first at size 30, the
\* second, whose computed size is 20, at size 30 as well
C30_StaleFont ==
    /\ ovReturn.bytes
    /\ Len(ovReturn.drawn) = 2
    /\ ovReturn.drawn[1].font = [truetype |-> TRUE, size |-> 30]
    /\ ComputedSize(2) = 20
    /\ ovReturn.drawn[2].font = [truetype |-> TRUE, size |-> 30]

====
